---- MODULE Spec2Model ----
(***************************************************************************)
(* dlqpiler: synthesis of a reversible circuit from a DLQ syntax tree.     *)
(*                                                                         *)
(* The model follows src/dlqpiler/ast.py (the expression nodes and their   *)
(* pre_build / alloc / build / reverse walk, FullCode's semantic check),   *)
(* src/dlqpiler/qunits.py (the primitive sub-circuits) and                 *)
(* src/dlqpiler/utils.py.  Circuits are followed on classical basis        *)
(* states: every qubit holds 0 or 1 and each gate is the permutation of    *)
(* basis states it implements.  A Python exception is the field err of the *)
(* walk's state; once it is set every later step of the same call is       *)
(* skipped, as an exception unwinds the call.                              *)
(***************************************************************************)
EXTENDS Integers, Sequences, FiniteSets, TLC

VARIABLES
    pc,            \* position of the pipeline
    expr,          \* RegisterExpressionDefinition.expr (mutated by the walk)
    val,           \* the circuit's basis state: qubit id -> 0 / 1
    val0,          \* the basis state the named registers started in
    pool,          \* QuantumEvaluator: stack of free ancillas
    n_ancillas,    \* QuantumEvaluator: ancillas created so far
    log,           \* alloc_ancilla / free_ancilla calls, in order
    err,           \* "" or the name of the exception that ended the call
    regdefseq,     \* FullCode.regdefseq
    terminator,    \* FullCode.terminator
    check          \* outcome of FullCode.check_definition_errors

vars == <<pc, expr, val, val0, pool, n_ancillas, log, err,
          regdefseq, terminator, check>>

(***************************************************************************)
(* Bounds                                                                  *)
(***************************************************************************)
WidthA == 2          \* size of register a
WidthB == 1          \* size of register b
WidthT == 3          \* size of the register being defined
MaxConst == 5        \* integer constants of a program are 0 .. MaxConst
MaxExp == 2          \* exponents of a program are 0 .. MaxExp (and -1)
MaxDefs == 3         \* definitions in a program given to the semantic check
MaxNat == 20         \* naturals given to natural_to_binary are 0 .. MaxNat
MaxBits == 4         \* numbers of bits given to natural_to_binary are 1 .. MaxBits

(***************************************************************************)
(* Arithmetic helpers                                                      *)
(***************************************************************************)
RECURSIVE Pow(_, _)
Pow(b, e) == IF e <= 0 THEN 1 ELSE b * Pow(b, e - 1)

Pow2(e) == Pow(2, e)

Max2(x, y) == IF x >= y THEN x ELSE y
Min2(x, y) == IF x <= y THEN x ELSE y

RECURSIVE CeilLog2From(_, _)
CeilLog2From(c, m) == IF Pow2(m) >= c THEN m ELSE CeilLog2From(c, m + 1)

\* math.ceil(math.log2(c)) for c >= 1
CeilLog2(c) == CeilLog2From(c, 0)

\* the bits of a constant counted with floor(log2 c) in place of the ceiling
n_bits_floor(c) == IF c > 0 THEN CeilLog2(c + 1) - 1 ELSE 0

\* n_bits_const = lambda c: int(math.ceil(math.log2(c))) if c > 0 else 0
n_bits_const(c) == IF c > 0 THEN CeilLog2(c) ELSE 0

RECURSIVE SeqSum(_)
SeqSum(s) == IF s = <<>> THEN 0 ELSE Head(s) + SeqSum(Tail(s))

RECURSIVE SeqMax(_)
SeqMax(s) == IF Len(s) = 1 THEN s[1] ELSE Max2(s[1], SeqMax(Tail(s)))

Range(s) == {s[i] : i \in DOMAIN s}

NoDup(s) == \A i, j \in DOMAIN s : i # j => s[i] # s[j]

(***************************************************************************)
(* utils.py                                                                *)
(***************************************************************************)
\* the n bits of x mod 2^n with the most significant bit first
natural_to_binary_msb_first(x, n) ==
    [i \in 1..n |-> ((x % Pow2(n)) \div Pow2(n - i)) % 2]

\* natural_to_binary(x, n): n bits, least significant first
natural_to_binary(x, n) == [i \in 1..n |-> ((x % Pow2(n)) \div Pow2(i - 1)) % 2]

\* binary_to_natural(x)
RECURSIVE binary_to_natural(_)
binary_to_natural(x) ==
    IF x = <<>> THEN 0 ELSE Head(x) + 2 * binary_to_natural(Tail(x))

(***************************************************************************)
(* Python values.  None is the one-element list <<0>> (qubit ids start at  *)
(* 1), so a result that is None and a result that is the empty list [] are *)
(* different values, as in the source.                                     *)
(***************************************************************************)
None == <<0>>
is_none(x) == x = None

(***************************************************************************)
(* Named registers.  a and b are defined by set definitions, t is the      *)
(* register being defined by the expression definition; z is an identifier *)
(* no definition defines.  Qubits 1 .. NamedQubits belong to the named     *)
(* registers, the ancillas follow.                                         *)
(***************************************************************************)
RegSize == [a |-> WidthA, b |-> WidthB, t |-> WidthT]
RegFirst == [a |-> 0, b |-> WidthA, t |-> WidthA + WidthB]
NamedQubits == WidthA + WidthB + WidthT

\* QuantumEvaluator.get_register_size(name): the size, or None (here -1)
get_register_size(name) == IF name \in DOMAIN RegSize THEN RegSize[name] ELSE -1

\* QuantumEvaluator.get_qiskit_register(name): the qubits, or None
get_qiskit_register(name) ==
    IF name \in DOMAIN RegSize
    THEN [i \in 1..RegSize[name] |-> RegFirst[name] + i]
    ELSE None

(***************************************************************************)
(* The state a walk threads through its calls: the evaluator's pool, the   *)
(* circuit's basis state and the pending exception.                        *)
(***************************************************************************)
Raise(s, e) == IF s.err # "" THEN s ELSE [s EXCEPT !.err = e]

\* QuantumEvaluator.alloc_ancilla: pop the pool, or grow the ancilla
\* register by one fresh |0> qubit when the pool is empty.
\* Returns the state with the handed-out qubit in field q.
alloc_ancilla(s) ==
    IF s.pool # <<>>
    THEN [s EXCEPT !.pool = Tail(s.pool),
                   !.log = Append(s.log, <<"alloc", Head(s.pool)>>),
                   !.q = Head(s.pool)]
    ELSE LET q == NamedQubits + s.n_ancillas + 1 IN
         [s EXCEPT !.n_ancillas = s.n_ancillas + 1,
                   !.val = Append(s.val, 0),
                   !.log = Append(s.log, <<"alloc", q>>),
                   !.q = q]

\* [alloc_ancilla() for i in range(n)]: field qs holds the list
RECURSIVE alloc_ancillas(_, _)
alloc_ancillas(s, n) ==
    IF n <= 0 THEN [s EXCEPT !.qs = <<>>]
    ELSE LET s1 == alloc_ancilla(s)
             s2 == alloc_ancillas(s1, n - 1)
         IN [s2 EXCEPT !.qs = <<s1.q>> \o s2.qs]

\* QuantumEvaluator.free_ancilla: push the qubit on the pool
free_ancilla(s, q) ==
    [s EXCEPT !.pool = <<q>> \o s.pool,
              !.log = Append(s.log, <<"free", q>>)]

\* for qb in qs: free_ancilla(qb)
RECURSIVE free_ancillas(_, _)
free_ancillas(s, qs) ==
    IF qs = <<>> THEN s ELSE free_ancillas(free_ancilla(s, Head(qs)), Tail(qs))

(***************************************************************************)
(* Gates on a basis state                                                  *)
(***************************************************************************)
\* value of a register (least significant qubit first)
RegVal(v, qs) == binary_to_natural([i \in 1..Len(qs) |-> v[qs[i]]])

\* the basis state with register qs holding x
SetReg(v, qs, x) ==
    LET bits == natural_to_binary(x, Len(qs))
    IN [q \in DOMAIN v |->
          IF \E i \in DOMAIN qs : qs[i] = q
          THEN bits[CHOOSE i \in DOMAIN qs : qs[i] = q]
          ELSE v[q]]

AllOnes(v, qs) == \A i \in DOMAIN qs : v[qs[i]] = 1

\* circ.x(q)
x_gate(s, q) ==
    IF s.err # "" THEN s ELSE [s EXCEPT !.val[q] = 1 - s.val[q]]

\* circ.x([q1, q2, ...]): one X on every listed qubit
RECURSIVE x_gates(_, _)
x_gates(s, qs) ==
    IF qs = <<>> THEN s ELSE x_gates(x_gate(s, Head(qs)), Tail(qs))

\* circ.mcx(ctrl, target); the backend rejects an instruction that names a
\* qubit twice (CircuitError: duplicate qubit arguments)
mcx_gate(s, ctrl, target) ==
    IF s.err # "" THEN s
    ELSE IF ~NoDup(ctrl \o <<target>>) THEN Raise(s, "CircuitError")
    ELSE IF AllOnes(s.val, ctrl)
         THEN [s EXCEPT !.val[target] = 1 - s.val[target]]
         ELSE s

\* circ.cx(c, t)
cx_gate(s, c, t) == mcx_gate(s, <<c>>, t)

(***************************************************************************)
(* qunits.py: arithmetic circuits                                          *)
(***************************************************************************)
\* register_by_constant_addition(n, c), given 'controls' control qubits by
\* .control(), appended to the circuit on ctrl + target.  On a basis state
\* the QFT / rz / inverse-QFT circuit adds c modulo 2^n to the target.
register_by_constant_addition(s, ctrl, target, c) ==
    IF s.err # "" THEN s
    ELSE IF is_none(target) THEN Raise(s, "TypeError")
    ELSE IF ~(Len(target) > 0) THEN Raise(s, "AssertionError")
    ELSE IF ~NoDup(ctrl \o target) THEN Raise(s, "CircuitError")
    ELSE IF AllOnes(s.val, ctrl)
         THEN [s EXCEPT !.val = SetReg(s.val, target,
                                       (RegVal(s.val, target) + c) % Pow2(Len(target)))]
         ELSE s

\* the loop shared by the four register-by-register circuits: for the
\* indices of src_reg in the order given, a singly controlled constant
\* adder of sign * 2^i on target_reg
RECURSIVE RegisterLoop(_, _, _, _, _)
RegisterLoop(s, src_reg, target_reg, sign, order) ==
    IF s.err # "" \/ order = <<>> THEN s
    ELSE LET i == Head(order)
         IN RegisterLoop(
                register_by_constant_addition(s, <<src_reg[i]>>, target_reg,
                                              sign * Pow2(i - 1)),
                src_reg, target_reg, sign, Tail(order))

Forward(n) == [i \in 1..n |-> i]
Backward(n) == [i \in 1..n |-> n + 1 - i]

\* len(src_reg) of a register that is None is a TypeError
register_by_register_addition(s, src_reg, target_reg) ==
    IF s.err # "" THEN s
    ELSE IF is_none(src_reg) THEN Raise(s, "TypeError")
    ELSE RegisterLoop(s, src_reg, target_reg, 1, Forward(Len(src_reg)))

\* inverse of the adder of 2^i is the adder of -2^i, loop order reversed
register_by_register_addition_dg(s, src_reg, target_reg) ==
    IF s.err # "" THEN s
    ELSE IF is_none(src_reg) THEN Raise(s, "TypeError")
    ELSE RegisterLoop(s, src_reg, target_reg, -1, Backward(Len(src_reg)))

register_by_register_subtraction(s, src_reg, target_reg) ==
    IF s.err # "" THEN s
    ELSE IF is_none(src_reg) THEN Raise(s, "TypeError")
    ELSE RegisterLoop(s, src_reg, target_reg, -1, Forward(Len(src_reg)))

register_by_register_subtraction_dg(s, src_reg, target_reg) ==
    IF s.err # "" THEN s
    ELSE IF is_none(src_reg) THEN Raise(s, "TypeError")
    ELSE RegisterLoop(s, src_reg, target_reg, 1, Backward(Len(src_reg)))

\* each factor listed once, whatever its exponent
FactorsIndexes_once(exponents, i) == [k \in i..Len(exponents) |-> k]

\* factors_indexes: the index of each factor, exponent times
RECURSIVE FactorsIndexes(_, _)
FactorsIndexes(exponents, i) ==
    IF i > Len(exponents) THEN <<>>
    ELSE [k \in 1..Max2(exponents[i], 0) |-> i] \o FactorsIndexes(exponents, i + 1)

\* itertools.product(range(d1), range(d2), ...): the tuples in
\* lexicographic order (bit indices start at 0, as in the source)
RECURSIVE IndexTuples(_)
IndexTuples(dims) ==
    IF dims = <<>> THEN << <<>> >>
    ELSE LET Prefixed(rest, n) ==
                 [k \in 1..(Head(dims) * n) |->
                     <<(k - 1) \div n>> \o rest[((k - 1) % n) + 1]]
             WithLen(rest) == Prefixed(rest, Len(rest))
         IN WithLen(IndexTuples(Tail(dims)))

\* ctrl_qubits of one tuple: for each factor, in index order, the qubits of
\* the set of bit indices the tuple selects in it (ascending)
RECURSIVE CtrlQubits(_, _, _, _)
CtrlQubits(bases, fi, t, factor) ==
    IF factor > Len(bases) THEN <<>>
    ELSE LET sel == {t[i] : i \in {j \in DOMAIN t : fi[j] = factor}}
             idx == SelectSeq(Forward(Len(bases[factor])), LAMBDA k : (k - 1) \in sel)
         IN [j \in DOMAIN idx |-> bases[factor][idx[j]]]
            \o CtrlQubits(bases, fi, t, factor + 1)

RECURSIVE MultiproductLoop(_, _, _, _, _, _)
MultiproductLoop(s, bases, fi, result, constant, tuples) ==
    IF s.err # "" \/ tuples = <<>> THEN s
    ELSE LET t == Head(tuples)
             c == constant * Pow2(SeqSum(t))
         IN MultiproductLoop(
                register_by_constant_addition(s, CtrlQubits(bases, fi, t, 1), result, c),
                bases, fi, result, constant, Tail(tuples))

Reversed(sq) == [i \in 1..Len(sq) |-> sq[Len(sq) + 1 - i]]

\* multiproduct(circ, bases, exponents, result, constant)
multiproduct(s, bases, exponents, result, constant) ==
    IF s.err # "" THEN s
    ELSE LET fi == FactorsIndexes(exponents, 1)
         IN IF \E i \in DOMAIN fi : is_none(bases[fi[i]]) THEN Raise(s, "TypeError")
            ELSE MultiproductLoop(s, bases, fi, result, constant,
                                  IndexTuples([i \in DOMAIN fi |-> Len(bases[fi[i]])]))

\* multiproduct_dg: the adders of -c, appended in reversed order
multiproduct_dg(s, bases, exponents, result, constant) ==
    IF s.err # "" THEN s
    ELSE LET fi == FactorsIndexes(exponents, 1)
         IN IF \E i \in DOMAIN fi : is_none(bases[fi[i]]) THEN Raise(s, "TypeError")
            ELSE MultiproductLoop(s, bases, fi, result, -constant,
                                  Reversed(IndexTuples([i \in DOMAIN fi |-> Len(bases[fi[i]])])))

(***************************************************************************)
(* qunits.py: relational circuits                                          *)
(***************************************************************************)
\* A single Qubit object q, where the circuit takes a list, is <<-q>> (a
\* list of qubits holds positive ids only).
Qubit(q) == <<-q>>
IsQubit(x) == Len(x) = 1 /\ x[1] < 0

\* circ.cx(aux, result) with aux a list: one CNOT from each listed qubit
RECURSIVE CxInto(_, _, _)
CxInto(s, aux, result) ==
    IF s.err # "" \/ aux = <<>> THEN s
    ELSE CxInto(cx_gate(s, Head(aux), result), Tail(aux), result)

\* register_less_than_register(circ, left, right, aux, result).
\* xleft = left + aux concatenates lists: with aux a Qubit object it is a
\* TypeError.
register_less_than_register(s, left, right, aux, result) ==
    IF s.err # "" THEN s
    ELSE IF is_none(left) \/ IsQubit(aux) THEN Raise(s, "TypeError")
    ELSE LET xleft == left \o aux
             s1 == register_by_register_subtraction(s, right, xleft)
             s2 == CxInto(s1, aux, result)
         IN register_by_register_subtraction_dg(s2, right, xleft)

register_less_than_register_dg(s, left, right, aux, result) ==
    IF s.err # "" THEN s
    ELSE IF is_none(left) \/ IsQubit(aux) THEN Raise(s, "TypeError")
    ELSE LET xleft == left \o aux
             s1 == register_by_register_addition(s, right, xleft)
             s2 == CxInto(s1, aux, result)
         IN register_by_register_addition_dg(s2, right, xleft)

register_greater_than_register(s, left, right, aux, result) ==
    register_less_than_register(s, right, left, aux, result)

register_greater_than_register_dg(s, left, right, aux, result) ==
    register_less_than_register_dg(s, right, left, aux, result)

\* register_less_than_constant(circ, reg, constant, aux, result):
\* adder of -constant on reg + aux, CNOT of reg[-1] into result, the
\* adder's inverse
register_less_than_constant(s, reg, constant, aux, result) ==
    IF s.err # "" THEN s
    ELSE IF is_none(reg) \/ is_none(aux) THEN Raise(s, "TypeError")
    ELSE LET xreg == reg \o aux
             s1 == register_by_constant_addition(s, <<>>, xreg, -constant)
             s2 == IF s1.err # "" THEN s1
                   ELSE IF reg = <<>> THEN Raise(s1, "IndexError")
                   ELSE cx_gate(s1, reg[Len(reg)], result)
         IN register_by_constant_addition(s2, <<>>, xreg, constant)

\* register_less_than_constant_dg: the adder's inverse comes first here
register_less_than_constant_dg(s, reg, constant, aux, result) ==
    IF s.err # "" THEN s
    ELSE IF is_none(reg) \/ is_none(aux) THEN Raise(s, "TypeError")
    ELSE LET xreg == reg \o aux
             s1 == register_by_constant_addition(s, <<>>, xreg, constant)
             s2 == IF s1.err # "" THEN s1
                   ELSE IF reg = <<>> THEN Raise(s1, "IndexError")
                   ELSE cx_gate(s1, reg[Len(reg)], result)
         IN register_by_constant_addition(s2, <<>>, xreg, -constant)

\* register_greater_than_constant: adder of -constant-1, CNOT, X on result
register_greater_than_constant(s, reg, constant, aux, result) ==
    IF s.err # "" THEN s
    ELSE IF is_none(reg) \/ is_none(aux) THEN Raise(s, "TypeError")
    ELSE LET xreg == reg \o aux
             s1 == register_by_constant_addition(s, <<>>, xreg, -constant - 1)
             s2 == IF s1.err # "" THEN s1
                   ELSE IF reg = <<>> THEN Raise(s1, "IndexError")
                   ELSE cx_gate(s1, reg[Len(reg)], result)
             s3 == x_gate(s2, result)
         IN register_by_constant_addition(s3, <<>>, xreg, constant + 1)

register_greater_than_constant_dg(s, reg, constant, aux, result) ==
    IF s.err # "" THEN s
    ELSE IF is_none(reg) \/ is_none(aux) THEN Raise(s, "TypeError")
    ELSE LET xreg == reg \o aux
             s1 == register_by_constant_addition(s, <<>>, xreg, constant + 1)
             s2 == x_gate(s1, result)
             s3 == IF s2.err # "" THEN s2
                   ELSE IF reg = <<>> THEN Raise(s2, "IndexError")
                   ELSE cx_gate(s2, reg[Len(reg)], result)
         IN register_by_constant_addition(s3, <<>>, xreg, -constant - 1)

\* for i in the given order: circ.cx(xleft[i], xright[i])
RECURSIVE CxLoop(_, _, _, _)
CxLoop(s, xleft, xright, order) ==
    IF s.err # "" \/ order = <<>> THEN s
    ELSE CxLoop(cx_gate(s, xleft[Head(order)], xright[Head(order)]),
                xleft, xright, Tail(order))

\* register_equal_register(circ, left, right, aux, result)
register_equal_register(s, left, right, aux, result) ==
    IF s.err # "" THEN s
    ELSE IF is_none(left) \/ is_none(right) \/ is_none(aux) THEN Raise(s, "TypeError")
    ELSE LET xleft == IF Len(left) >= Len(right) THEN left ELSE left \o aux
             xright == IF Len(left) >= Len(right) THEN right \o aux ELSE right
         IN IF Len(xleft) # Len(xright) THEN Raise(s, "AssertionError")
            ELSE LET s1 == CxLoop(s, xleft, xright, Forward(Len(xleft)))
                     s2 == mcx_gate(s1, xright, result)
                 IN CxLoop(s2, xleft, xright, Backward(Len(xleft)))

register_equal_register_dg(s, left, right, aux, result) ==
    register_equal_register(s, left, right, aux, result)

\* for i in range(len(bconst)): if not bconst[i]: circ.x(xreg[i])
RECURSIVE XZeros(_, _, _, _)
XZeros(s, xreg, bconst, i) ==
    IF s.err # "" \/ i > Len(bconst) THEN s
    ELSE XZeros(IF bconst[i] = 0 THEN x_gate(s, xreg[i]) ELSE s, xreg, bconst, i + 1)

\* register_equal_constant(circ, reg, constant, aux, result)
register_equal_constant(s, reg, constant, aux, result) ==
    IF s.err # "" THEN s
    ELSE IF is_none(reg) \/ is_none(aux) THEN Raise(s, "TypeError")
    ELSE LET xreg == reg \o aux
         IN IF ~(Len(xreg) > 0) THEN Raise(s, "AssertionError")
            ELSE LET bconst == natural_to_binary(constant, Len(xreg))
                     s1 == XZeros(s, xreg, bconst, 1)
                     s2 == mcx_gate(s1, xreg, result)
                 IN XZeros(s2, xreg, bconst, 1)

register_equal_constant_dg(s, reg, constant, aux, result) ==
    register_equal_constant(s, reg, constant, aux, result)

register_not_equal_register(s, left, right, aux, result) ==
    x_gate(register_equal_register(s, left, right, aux, result), result)

register_not_equal_register_dg(s, left, right, aux, result) ==
    register_equal_register_dg(x_gate(s, result), left, right, aux, result)

register_not_equal_constant(s, reg, constant, aux, result) ==
    x_gate(register_equal_constant(s, reg, constant, aux, result), result)

register_not_equal_constant_dg(s, reg, constant, aux, result) ==
    register_equal_constant_dg(x_gate(s, result), reg, constant, aux, result)

(***************************************************************************)
(* ast.py: the expression nodes.  An int operand (a Python int, not an     *)
(* Expression) is a node of type "int".  Signal.POS is TRUE, Signal.NEG is *)
(* FALSE.  filtered_operands holds references to objects of operands: it   *)
(* is the list of their positions in operands.                             *)
(***************************************************************************)
PyInt(k) == [type |-> "int", value |-> k]

Identifier(label) == [type |-> "Identifier", label |-> label, result |-> None]

Parentheses(inner_expr) ==
    [type |-> "Parentheses", inner_expr |-> inner_expr, result |-> None]

UnaryMinus(inner_expr) ==
    [type |-> "UnaryMinus", inner_expr |-> inner_expr, result |-> None]

Power(base_expr, exponent) ==
    [type |-> "Power", base_expr |-> base_expr, exponent |-> exponent,
     result |-> None]

Product(operands) ==
    [type |-> "Product", operands |-> operands,
     exponents |-> [i \in DOMAIN operands |-> 1], const_factor |-> 1,
     filtered_operands |-> <<>>, filtered_exponents |-> <<>>, result |-> None]

Summation(operands, signals) ==
    [type |-> "Summation", operands |-> operands, signals |-> signals,
     const_term |-> 0, filtered_operands |-> <<>>, filtered_signals |-> <<>>,
     result |-> None]

RelationalTypes == {"Equal", "NotEqual", "LessThan", "GreaterThan"}

RelationalExpression(type, left, right) ==
    [type |-> type, left |-> left, right |-> right, aux |-> None, mode |-> "",
     result |-> None]

Not(operand) == [type |-> "Not", operand |-> operand, result |-> None]

And(operands) == [type |-> "And", operands |-> operands, result |-> None]

Or(operands) == [type |-> "Or", operands |-> operands, result |-> None]

IsInt(n) == n.type = "int"
IsExpression(n) == n.type # "int"

\* Parentheses.bypass(expr)
RECURSIVE bypass(_)
bypass(x) == IF x.type = "Parentheses" THEN bypass(x.inner_expr) ELSE x

\* what a call returns: the node as the call left it, and the walk's state
R(n, s) == [n |-> n, s |-> s]

\* what a pure call returns: a value, or the exception it raised
Ok(v) == [v |-> v, err |-> ""]
Err(e) == [v |-> 0, err |-> e]

\* get_leafs: Identifier, Parentheses, UnaryMinus, Power, Product, Summation
\* and RelationalExpression override it; Not, And, Or inherit
\* Expression.get_leafs, which returns the empty set.
RECURSIVE get_leafs(_)
get_leafs(n) ==
    CASE n.type = "Identifier" -> {n.label}
      [] n.type \in {"Parentheses", "UnaryMinus"} -> get_leafs(n.inner_expr)
      [] n.type = "Power" -> get_leafs(n.base_expr)
      [] n.type \in {"Product", "Summation"} ->
            UNION {get_leafs(n.operands[i]) :
                     i \in {j \in DOMAIN n.operands : IsExpression(n.operands[j])}}
      [] n.type \in RelationalTypes ->
            IF IsExpression(n.left) /\ IsExpression(n.right)
            THEN get_leafs(n.left) \cup get_leafs(n.right)
            ELSE IF IsExpression(n.left) /\ IsInt(n.right)
            THEN get_leafs(n.left)
            ELSE get_leafs(n.right)
      [] OTHER -> {}

\* needs_result_allocation().  UnaryMinus.__init__ sets the attribute
\* needs_result_allocation to False, so calling it is a TypeError; an int
\* has no such attribute.
needs_result_allocation(n) ==
    CASE n.type \in {"Identifier", "Parentheses"} -> Ok(FALSE)
      [] n.type = "UnaryMinus" -> Err("TypeError")
      [] n.type = "int" -> Err("AttributeError")
      [] OTHER -> Ok(TRUE)

\* the first exception of a list of results, "" if there is none
RECURSIVE FirstErr(_)
FirstErr(rs) ==
    IF rs = <<>> THEN ""
    ELSE IF Head(rs).err # "" THEN Head(rs).err ELSE FirstErr(Tail(rs))

\* n_result_qubits(quantum_evaluator)
RECURSIVE n_result_qubits(_)
n_result_qubits(n) ==
    CASE n.type = "Identifier" ->
            IF get_register_size(n.label) = -1 THEN Err("SynthError")
            ELSE Ok(get_register_size(n.label))
      [] n.type = "Parentheses" -> n_result_qubits(n.inner_expr)
      [] n.type = "UnaryMinus" -> Err("NotImplementedError")
      [] n.type = "Power" ->
            LET nb == n_result_qubits(n.base_expr)
            IN IF nb.err # "" THEN nb ELSE Ok(nb.v * n.exponent)
      [] n.type = "Product" ->
            LET ns == [j \in DOMAIN n.filtered_operands |->
                         n_result_qubits(n.operands[n.filtered_operands[j]])]
            IN IF FirstErr(ns) # "" THEN Err(FirstErr(ns))
               ELSE Ok(SeqSum([j \in DOMAIN ns |-> ns[j].v * n.filtered_exponents[j]])
                       + n_bits_const(n.const_factor))
      [] n.type = "Summation" ->
            LET ns == [j \in DOMAIN n.filtered_operands |->
                         n_result_qubits(n.operands[n.filtered_operands[j]])]
            IN IF FirstErr(ns) # "" THEN Err(FirstErr(ns))
               ELSE Ok(SeqMax([j \in DOMAIN ns |-> ns[j].v + 1]
                              \o <<n_bits_const(n.const_term)>>))
      [] n.type = "int" -> Err("AttributeError")
      [] OTHER -> Ok(1)

\* alloc_result_qubits(quantum_evaluator); the call is recorded in the log
\* with the first qubit of the register, after the qubits it obtains
alloc_result_qubits(n, s) ==
    IF s.err # "" THEN R(n, s)
    ELSE IF ~is_none(n.result) THEN R(n, Raise(s, "AssertionError"))
    ELSE LET nq == n_result_qubits(n)
         IN IF nq.err # "" THEN R(n, Raise(s, nq.err))
            ELSE LET Allocated(s1) ==
                         R([n EXCEPT !.result = s1.qs],
                           [s1 EXCEPT !.log = Append(s1.log,
                                <<"alloc_result_qubits",
                                  IF s1.qs = <<>> THEN 0 ELSE Head(s1.qs)>>)])
                 IN Allocated(alloc_ancillas(s, nq.v))

\* release_result_qubits(quantum_evaluator); the call is recorded in the
\* log with the first qubit of the register, before the qubits it frees
release_result_qubits(n, s) ==
    IF s.err # "" THEN R(n, s)
    ELSE IF is_none(n.result) THEN R(n, Raise(s, "AssertionError"))
    ELSE R([n EXCEPT !.result = None],
           free_ancillas([s EXCEPT !.log = Append(s.log,
                              <<"release_result_qubits",
                                IF n.result = <<>> THEN 0 ELSE Head(n.result)>>)],
                         n.result))

(***************************************************************************)
(* ast.py: pre_build                                                       *)
(***************************************************************************)
\* Product.pre_build's inner loop on operands[i]:
\*   while isinstance(op, (Power, Parentheses)):
\*       op = Parentheses.bypass(op)
\*       if isinstance(op, Power):
\*           op = op.base_expr
\*           exponent *= op.exponent
\* op.exponent is read after op became the base: an AttributeError unless
\* the base is a Power itself.
RECURSIVE PowerPeel(_, _)
PowerPeel(op, exponent) ==
    IF op.type \notin {"Power", "Parentheses"}
    THEN [op |-> op, exponent |-> exponent, err |-> ""]
    ELSE LET x == bypass(op)
         IN IF x.type = "Power"
            THEN IF x.base_expr.type = "Power"
                 THEN PowerPeel(x.base_expr, exponent * x.base_expr.exponent)
                 ELSE [op |-> x.base_expr, exponent |-> exponent,
                       err |-> "AttributeError"]
            ELSE PowerPeel(x, exponent)

\* Summation.pre_build's inner loop on operands[i]:
\*   while isinstance(op, (Parentheses, UnaryMinus)):
\*       op = Parentheses.bypass(op)
\*       if isinstance(op, UnaryMinus):
\*           op = op.inner_expr; signal = the other signal
\* the same loop without the inversion of the signal
RECURSIVE MinusPeel_keep_signal(_, _)
MinusPeel_keep_signal(op, signal) ==
    IF op.type \notin {"Parentheses", "UnaryMinus"}
    THEN [op |-> op, signal |-> signal]
    ELSE LET x == bypass(op)
         IN IF x.type = "UnaryMinus"
            THEN MinusPeel_keep_signal(x.inner_expr, signal)
            ELSE MinusPeel_keep_signal(x, signal)

RECURSIVE MinusPeel(_, _)
MinusPeel(op, signal) ==
    IF op.type \notin {"Parentheses", "UnaryMinus"}
    THEN [op |-> op, signal |-> signal]
    ELSE LET x == bypass(op)
         IN IF x.type = "UnaryMinus"
            THEN MinusPeel(x.inner_expr, ~signal)
            ELSE MinusPeel(x, signal)

\* RelationalExpression.pre_build
RelationalPreBuild(n) ==
    LET left == bypass(n.left)
        right == bypass(n.right)
    IN [n EXCEPT !.left = left, !.right = right,
                 !.mode = IF IsExpression(left) /\ IsExpression(right) THEN "rr"
                          ELSE IF IsExpression(left) /\ IsInt(right) THEN "rc"
                          ELSE "cr"]

\* math.log2(k) raises ValueError (math domain error) unless k > 0
Log2Err(k) == IF k > 0 THEN "" ELSE "ValueError"

RECURSIVE pre_build(_, _)
RECURSIVE ProductPreBuild(_, _, _)
RECURSIVE SummationPreBuild(_, _, _)
RECURSIVE LogicPreBuild(_, _, _)
RECURSIVE EqualPreBuild(_, _)
RECURSIVE LessThanPreBuild(_, _)

\* Product.pre_build, from operand i on
ProductPreBuild(n, s, i) ==
    IF s.err # "" \/ i > Len(n.operands) THEN R(n, s)
    ELSE IF IsInt(n.operands[i])
    THEN ProductPreBuild([n EXCEPT !.const_factor = @ * n.operands[i].value], s, i + 1)
    ELSE LET Peeled(r, p) ==
                 IF p.err # ""
                 THEN R([n EXCEPT !.operands[i] = p.op, !.exponents[i] = p.exponent],
                        Raise(r.s, p.err))
                 ELSE ProductPreBuild(
                         [n EXCEPT !.operands[i] = p.op,
                                   !.exponents[i] = p.exponent,
                                   !.filtered_operands = Append(@, i),
                                   !.filtered_exponents = Append(@, p.exponent)],
                         r.s, i + 1)
             PreBuilt(r) ==
                 IF r.s.err # "" THEN R([n EXCEPT !.operands[i] = r.n], r.s)
                 ELSE Peeled(r, PowerPeel(r.n, n.exponents[i]))
         IN PreBuilt(pre_build(n.operands[i], s))

\* Summation.pre_build, from operand i on
SummationPreBuild(n, s, i) ==
    IF s.err # "" \/ i > Len(n.operands) THEN R(n, s)
    ELSE IF IsInt(n.operands[i])
    THEN SummationPreBuild(
            [n EXCEPT !.const_term = @ + (IF n.signals[i] THEN n.operands[i].value
                                          ELSE -n.operands[i].value)],
            s, i + 1)
    ELSE LET Peeled(r, p) ==
                 SummationPreBuild(
                     [n EXCEPT !.operands[i] = p.op,
                               !.signals[i] = p.signal,
                               !.filtered_operands = Append(@, i),
                               !.filtered_signals = Append(@, p.signal)],
                     r.s, i + 1)
             PreBuilt(r) ==
                 IF r.s.err # "" THEN R([n EXCEPT !.operands[i] = r.n], r.s)
                 ELSE Peeled(r, MinusPeel(r.n, n.signals[i]))
         IN PreBuilt(pre_build(n.operands[i], s))

\* And.pre_build / Or.pre_build, from operand i on
LogicPreBuild(n, s, i) ==
    IF s.err # "" \/ i > Len(n.operands) THEN R(n, s)
    ELSE LET PreBuilt(r) == LogicPreBuild([n EXCEPT !.operands[i] = r.n], r.s, i + 1)
         IN PreBuilt(pre_build(bypass(n.operands[i]), s))

\* Equal.pre_build and NotEqual.pre_build
EqualPreBuild(n0, s) ==
    LET WithAux(n1, s1) == R([n1 EXCEPT !.aux = s1.qs], s1)
        Sized(n1, s1, nl, nr) ==
            IF s1.err # "" THEN R(n1, s1)
            ELSE IF nl.err # "" THEN R(n1, Raise(s1, nl.err))
            ELSE IF nr.err # "" THEN R(n1, Raise(s1, nr.err))
            ELSE WithAux(n1, alloc_ancillas(s1, Max2(nl.v, nr.v) - Min2(nl.v, nr.v)))
        SizedRC(n1, s1, k, nreg) ==
            IF s1.err # "" THEN R(n1, s1)
            ELSE IF Log2Err(k) # "" THEN R(n1, Raise(s1, Log2Err(k)))
            ELSE IF nreg.err # "" THEN R(n1, Raise(s1, nreg.err))
            ELSE WithAux(n1, alloc_ancillas(s1, Max2(CeilLog2(k) - nreg.v, 0)))
        BothPreBuilt(n, rl, rr) ==
            Sized([n EXCEPT !.left = rl.n, !.right = rr.n], rr.s,
                  n_result_qubits(rl.n), n_result_qubits(rr.n))
        LeftPreBuilt(n, rl) == BothPreBuilt(n, rl, pre_build(n.right, rl.s))
        RegPreBuilt(n, r) ==
            SizedRC(IF n.mode = "rc" THEN [n EXCEPT !.left = r.n]
                    ELSE [n EXCEPT !.right = r.n],
                    r.s,
                    IF n.mode = "rc" THEN n.right.value ELSE n.left.value,
                    n_result_qubits(r.n))
        Moded(n) ==
            IF n.mode = "rr" THEN LeftPreBuilt(n, pre_build(n.left, s))
            ELSE RegPreBuilt(n, pre_build(IF n.mode = "rc" THEN n.left ELSE n.right, s))
    IN Moded(RelationalPreBuild(n0))

\* LessThan.pre_build and GreaterThan.pre_build
LessThanPreBuild(n0, s) ==
    LET WithAux(n1, s1) == R([n1 EXCEPT !.aux = s1.qs], s1)
        Sized(n1, s1) ==
            IF s1.err # "" THEN R(n1, s1)
            ELSE WithAux(n1, alloc_ancillas(s1, 1))
        SizedRC(n1, s1, k, nreg) ==
            IF s1.err # "" THEN R(n1, s1)
            ELSE IF nreg.err # "" THEN R(n1, Raise(s1, nreg.err))
            ELSE IF Log2Err(k) # "" THEN R(n1, Raise(s1, Log2Err(k)))
            ELSE WithAux(n1, alloc_ancillas(
                     s1, Max2(nreg.v - Max2(nreg.v, CeilLog2(k)), 0) + 1))
        BothPreBuilt(n, rl, rr) ==
            Sized([n EXCEPT !.left = rl.n, !.right = rr.n], rr.s)
        LeftPreBuilt(n, rl) == BothPreBuilt(n, rl, pre_build(n.right, rl.s))
        RegPreBuilt(n, r) ==
            SizedRC(IF n.mode = "rc" THEN [n EXCEPT !.left = r.n]
                    ELSE [n EXCEPT !.right = r.n],
                    r.s,
                    IF n.mode = "rc" THEN n.right.value ELSE n.left.value,
                    n_result_qubits(r.n))
        Moded(n) ==
            IF n.mode = "rr" THEN LeftPreBuilt(n, pre_build(n.left, s))
            ELSE RegPreBuilt(n, pre_build(IF n.mode = "rc" THEN n.left ELSE n.right, s))
    IN Moded(RelationalPreBuild(n0))

\* pre_build(quantum_evaluator)
pre_build(n, s) ==
    IF s.err # "" THEN R(n, s)
    ELSE CASE n.type = "Identifier" ->
                 LET qreg == get_qiskit_register(n.label)
                 IN IF is_none(qreg) THEN R(n, Raise(s, "SynthError"))
                    ELSE R([n EXCEPT !.result = qreg], s)
           [] n.type = "Power" ->
                 LET PreBuilt(r) ==
                         IF r.s.err # "" THEN R([n EXCEPT !.base_expr = r.n], r.s)
                         ELSE R([n EXCEPT !.base_expr = bypass(r.n)], r.s)
                 IN PreBuilt(pre_build(n.base_expr, s))
           [] n.type = "Product" -> ProductPreBuild(n, s, 1)
           [] n.type = "Summation" -> SummationPreBuild(n, s, 1)
           [] n.type \in {"Equal", "NotEqual"} -> EqualPreBuild(n, s)
           [] n.type \in {"LessThan", "GreaterThan"} -> LessThanPreBuild(n, s)
           [] n.type = "Not" ->
                 LET PreBuilt(r) == R([n EXCEPT !.operand = r.n], r.s)
                 IN PreBuilt(pre_build(n.operand, s))
           [] n.type \in {"And", "Or"} -> LogicPreBuild(n, s, 1)
           [] OTHER -> R(n, s)   \* Expression.pre_build: pass

(***************************************************************************)
(* ast.py: build and reverse                                               *)
(***************************************************************************)
\* indexing a result: x[-1] and x[0] are a TypeError on None and an
\* IndexError on the empty list
IndexErr(qs) ==
    IF is_none(qs) THEN "TypeError" ELSE IF qs = <<>> THEN "IndexError" ELSE ""

Top(qs) == qs[Len(qs)]

\* the exceptions of the [op.result[-1] for op in operands] list
TopsErr(ops) == FirstErr([i \in DOMAIN ops |-> Err(IndexErr(ops[i].result))])
Tops(ops) == [i \in DOMAIN ops |-> Top(ops[i].result)]

\* the forward primitive of a relational node in mode rr.  LessThan and
\* GreaterThan hand self.aux[0], one Qubit, to the circuit.
RelationalRR(type, s, left, right, aux, result) ==
    CASE type = "Equal" -> register_equal_register(s, left, right, aux, result)
      [] type = "NotEqual" -> register_not_equal_register(s, left, right, aux, result)
      [] type = "LessThan" ->
            IF IndexErr(aux) # "" THEN Raise(s, IndexErr(aux))
            ELSE register_less_than_register(s, left, right, Qubit(aux[1]), result)
      [] type = "GreaterThan" ->
            IF IndexErr(aux) # "" THEN Raise(s, IndexErr(aux))
            ELSE register_greater_than_register(s, left, right, Qubit(aux[1]), result)

RelationalRR_dg(type, s, left, right, aux, result) ==
    CASE type = "Equal" -> register_equal_register_dg(s, left, right, aux, result)
      [] type = "NotEqual" -> register_not_equal_register_dg(s, left, right, aux, result)
      [] type = "LessThan" ->
            IF IndexErr(aux) # "" THEN Raise(s, IndexErr(aux))
            ELSE register_less_than_register_dg(s, left, right, Qubit(aux[1]), result)
      [] type = "GreaterThan" ->
            IF IndexErr(aux) # "" THEN Raise(s, IndexErr(aux))
            ELSE register_greater_than_register_dg(s, left, right, Qubit(aux[1]), result)

\* the forward primitive of a relational node in mode rc or cr, on the
\* operand that is a register and the operand that is a constant
RelationalRC(type, mode, s, reg, constant, aux, result) ==
    CASE type = "Equal" -> register_equal_constant(s, reg, constant, aux, result)
      [] type = "NotEqual" -> register_not_equal_constant(s, reg, constant, aux, result)
      [] (type = "LessThan" /\ mode = "rc") \/ (type = "GreaterThan" /\ mode = "cr") ->
            register_less_than_constant(s, reg, constant, aux, result)
      [] OTHER -> register_greater_than_constant(s, reg, constant, aux, result)

RelationalRC_dg(type, mode, s, reg, constant, aux, result) ==
    CASE type = "Equal" -> register_equal_constant_dg(s, reg, constant, aux, result)
      [] type = "NotEqual" -> register_not_equal_constant_dg(s, reg, constant, aux, result)
      [] (type = "LessThan" /\ mode = "rc") \/ (type = "GreaterThan" /\ mode = "cr") ->
            register_less_than_constant_dg(s, reg, constant, aux, result)
      [] OTHER -> register_greater_than_constant_dg(s, reg, constant, aux, result)

RECURSIVE build(_, _)
RECURSIVE reverse(_, _)
RECURSIVE ProductBuild(_, _, _)
RECURSIVE ProductReverse(_, _, _)
RECURSIVE SummationBuild(_, _, _)
RECURSIVE SummationReverse(_, _, _)
RECURSIVE LogicBuild(_, _, _)
RECURSIVE LogicReverse(_, _, _)

\* if c.needs_result_allocation(): c.alloc_result_qubits(quantum_evaluator)
AllocIfNeeded(c, s) ==
    IF s.err # "" THEN R(c, s)
    ELSE LET need == needs_result_allocation(c)
         IN IF need.err # "" THEN R(c, Raise(s, need.err))
            ELSE IF need.v THEN alloc_result_qubits(c, s) ELSE R(c, s)

\* c.build(quantum_evaluator) whatever c is
BuildAlways(c, s) == IF s.err # "" THEN R(c, s) ELSE build(c, s)

\* if not isinstance(c, Identifier): c.build(quantum_evaluator)
BuildUnlessIdentifier(c, s) ==
    IF s.err # "" \/ c.type = "Identifier" THEN R(c, s) ELSE build(c, s)

\* if not isinstance(c, Identifier): c.reverse(quantum_evaluator)
ReverseUnlessIdentifier(c, s) ==
    IF s.err # "" \/ c.type = "Identifier" THEN R(c, s) ELSE reverse(c, s)

\* if c.needs_result_allocation(): c.release_result_qubits(quantum_evaluator)
ReleaseIfNeeded(c, s) ==
    IF s.err # "" THEN R(c, s)
    ELSE LET need == needs_result_allocation(c)
         IN IF need.err # "" THEN R(c, Raise(s, need.err))
            ELSE IF need.v THEN release_result_qubits(c, s) ELSE R(c, s)

\* if c.needs_result_allocation(): c.release_result_qubits()
\* the call without the evaluator is a TypeError (missing argument)
ReleaseIfNeededNoArg(c, s) ==
    IF s.err # "" THEN R(c, s)
    ELSE LET need == needs_result_allocation(c)
         IN IF need.err # "" THEN R(c, Raise(s, need.err))
            ELSE IF need.v THEN R(c, Raise(s, "TypeError")) ELSE R(c, s)

\* the two statements every build applies to an operand c:
\*   if c.needs_result_allocation(): c.alloc_result_qubits(quantum_evaluator)
\*   if not isinstance(c, Identifier): c.build(quantum_evaluator)
AllocAndBuild(c, s) ==
    LET Allocated(r) == BuildUnlessIdentifier(r.n, r.s)
    IN Allocated(AllocIfNeeded(c, s))

\* the two statements every reverse applies to an operand c:
\*   if not isinstance(c, Identifier): c.reverse(quantum_evaluator)
\*   if c.needs_result_allocation(): c.release_result_qubits(quantum_evaluator)
ReverseAndRelease(c, s) ==
    LET Release(r) == ReleaseIfNeeded(r.n, r.s)
    IN Release(ReverseUnlessIdentifier(c, s))

\* Product.build's loop, from filtered operand j on
ProductBuild(n, s, j) ==
    IF s.err # "" \/ j > Len(n.filtered_operands) THEN R(n, s)
    ELSE LET Built(i, r) == ProductBuild([n EXCEPT !.operands[i] = r.n], r.s, j + 1)
         IN Built(n.filtered_operands[j],
                  AllocAndBuild(n.operands[n.filtered_operands[j]], s))

\* Product.reverse's loop, over self.operands, from operand i on:
\*   if not isinstance(op, Identifier): op.reverse()
\*   if op.needs_result_allocation(): op.release_result_qubits(quantum_evaluator)
\* op.reverse() is an AttributeError on an int and a TypeError (missing
\* argument) on an expression.
ProductReverse(n, s, i) ==
    IF s.err # "" \/ i > Len(n.operands) THEN R(n, s)
    ELSE LET op == n.operands[i]
         IN IF op.type = "int" THEN R(n, Raise(s, "AttributeError"))
            ELSE IF op.type # "Identifier" THEN R(n, Raise(s, "TypeError"))
            ELSE LET Released(r) ==
                         ProductReverse([n EXCEPT !.operands[i] = r.n], r.s, i + 1)
                 IN Released(ReleaseIfNeeded(op, s))

\* Summation.build's loop, from filtered operand j on
SummationBuild(n, s, j) ==
    IF s.err # "" \/ j > Len(n.filtered_operands) THEN R(n, s)
    ELSE LET Built(i, r) ==
                 SummationBuild(
                     [n EXCEPT !.operands[i] = r.n],
                     IF n.filtered_signals[j]
                     THEN register_by_register_addition(r.s, r.n.result, n.result)
                     ELSE register_by_register_subtraction(r.s, r.n.result, n.result),
                     j + 1)
         IN Built(n.filtered_operands[j],
                  AllocAndBuild(n.operands[n.filtered_operands[j]], s))

\* Summation.reverse's loop, from filtered operand j on
SummationReverse(n, s, j) ==
    IF s.err # "" \/ j > Len(n.filtered_operands) THEN R(n, s)
    ELSE LET Released(i, r) ==
                 SummationReverse([n EXCEPT !.operands[i] = r.n], r.s, j + 1)
             Operand(i, op) ==
                 Released(i, ReverseAndRelease(
                     op,
                     IF n.filtered_signals[j]
                     THEN register_by_register_subtraction(s, op.result, n.result)
                     ELSE register_by_register_addition(s, op.result, n.result)))
         IN Operand(n.filtered_operands[j], n.operands[n.filtered_operands[j]])

\* the operand loop of And.build / Or.build, from operand i on
LogicBuild(n, s, i) ==
    IF s.err # "" \/ i > Len(n.operands) THEN R(n, s)
    ELSE LET Built(r) == LogicBuild([n EXCEPT !.operands[i] = r.n], r.s, i + 1)
         IN Built(AllocAndBuild(n.operands[i], s))

\* the operand loop of And.reverse / Or.reverse, from operand i on
LogicReverse(n, s, i) ==
    IF s.err # "" \/ i > Len(n.operands) THEN R(n, s)
    ELSE LET Released(r) == LogicReverse([n EXCEPT !.operands[i] = r.n], r.s, i + 1)
         IN Released(ReverseAndRelease(n.operands[i], s))

\* [op.result for op in self.filtered_operands]
FilteredResults(n) ==
    [j \in DOMAIN n.filtered_operands |-> n.operands[n.filtered_operands[j]].result]

\* build of Equal, NotEqual, LessThan, GreaterThan
RelationalBuild(n, s) ==
    IF n.mode = "rr"
    THEN LET Circuit(n1, s1) ==
                 IF s1.err # "" THEN R(n1, s1)
                 ELSE IF IndexErr(n.result) # ""
                 THEN R(n1, Raise(s1, IndexErr(n.result)))
                 ELSE R(n1, RelationalRR(n.type, s1, n1.left.result, n1.right.result,
                                         n.aux, n.result[1]))
             RightBuilt(l2, r2) ==
                 Circuit([n EXCEPT !.left = l2.n, !.right = r2.n], r2.s)
             LeftBuilt(r1, l2) == RightBuilt(l2, BuildUnlessIdentifier(r1.n, l2.s))
             RightAllocated(l1, r1) == LeftBuilt(r1, BuildUnlessIdentifier(l1.n, r1.s))
             LeftAllocated(l1) == RightAllocated(l1, AllocIfNeeded(n.right, l1.s))
         IN LeftAllocated(AllocIfNeeded(n.left, s))
    ELSE IF n.mode \in {"rc", "cr"}
    THEN LET Circuit(n1, r2) ==
                 IF r2.s.err # "" THEN R(n1, r2.s)
                 ELSE IF IndexErr(n.result) # ""
                 THEN R(n1, Raise(r2.s, IndexErr(n.result)))
                 ELSE R(n1, RelationalRC(n.type, n.mode, r2.s, r2.n.result,
                                         IF n.mode = "rc" THEN n.right.value
                                         ELSE n.left.value,
                                         n.aux, n.result[1]))
             Built(r2) ==
                 Circuit(IF n.mode = "rc" THEN [n EXCEPT !.left = r2.n]
                         ELSE [n EXCEPT !.right = r2.n], r2)
         IN Built(AllocAndBuild(IF n.mode = "rc" THEN n.left ELSE n.right, s))
    ELSE R(n, Raise(s, "Exception"))   \* raise Exception('Undefined mode')

\* for qbit in self.aux: quantum_evaluator.free_ancilla(qbit)
FreeAux(n, s) ==
    IF s.err # "" THEN s
    ELSE IF is_none(n.aux) THEN Raise(s, "TypeError")
    ELSE free_ancillas(s, n.aux)

\* reverse of Equal, NotEqual, LessThan, GreaterThan.  Equal and NotEqual
\* call release_result_qubits() without the evaluator in mode rr.
RelationalReverse(n, s) ==
    IF n.mode = "rr"
    THEN IF IndexErr(n.result) # "" THEN R(n, Raise(s, IndexErr(n.result)))
         ELSE LET Release(c, s1) ==
                      IF n.type \in {"Equal", "NotEqual"}
                      THEN ReleaseIfNeededNoArg(c, s1)
                      ELSE ReleaseIfNeeded(c, s1)
                  RightReleased(l2, r2) ==
                      R([n EXCEPT !.left = l2.n, !.right = r2.n], FreeAux(n, r2.s))
                  LeftReleased(r1, l2) == RightReleased(l2, Release(r1.n, l2.s))
                  RightReversed(l1, r1) == LeftReleased(r1, Release(l1.n, r1.s))
                  LeftReversed(l1) ==
                      RightReversed(l1, ReverseUnlessIdentifier(n.right, l1.s))
              IN LeftReversed(ReverseUnlessIdentifier(
                     n.left,
                     RelationalRR_dg(n.type, s, n.left.result, n.right.result,
                                     n.aux, n.result[1])))
    ELSE IF n.mode \in {"rc", "cr"}
    THEN IF IndexErr(n.result) # "" THEN R(n, Raise(s, IndexErr(n.result)))
         ELSE LET Released(r2) ==
                      R(IF n.mode = "rc" THEN [n EXCEPT !.left = r2.n]
                        ELSE [n EXCEPT !.right = r2.n],
                        FreeAux(n, r2.s))
                  Register(reg, k) ==
                      Released(ReverseAndRelease(
                          reg,
                          RelationalRC_dg(n.type, n.mode, s, reg.result, k,
                                          n.aux, n.result[1])))
              IN Register(IF n.mode = "rc" THEN n.left ELSE n.right,
                          IF n.mode = "rc" THEN n.right.value ELSE n.left.value)
    ELSE R(n, Raise(s, "Exception"))

\* build(quantum_evaluator)
build(n, s) ==
    IF s.err # "" THEN R(n, s)
    ELSE CASE n.type = "Power" ->
                 LET Built(r) ==
                         R([n EXCEPT !.base_expr = r.n],
                           multiproduct(r.s, <<r.n.result>>, <<n.exponent>>,
                                        n.result, 1))
                 IN Built(AllocAndBuild(n.base_expr, s))
           [] n.type = "Product" ->
                 LET Built(r) ==
                         R(r.n, multiproduct(r.s, FilteredResults(r.n),
                                             r.n.filtered_exponents, r.n.result, 1))
                 IN Built(ProductBuild(n, s, 1))
           [] n.type = "Summation" -> SummationBuild(n, s, 1)
           [] n.type \in RelationalTypes -> RelationalBuild(n, s)
           [] n.type = "Not" ->
                 LET Circuit(n1, r, e) ==
                         IF r.s.err # "" THEN R(n1, r.s)
                         ELSE IF e # "" THEN R(n1, Raise(r.s, e))
                         ELSE R(n1, x_gate(cx_gate(r.s, Top(r.n.result), Top(n.result)),
                                           Top(n.result)))
                     Built(r) ==
                         Circuit([n EXCEPT !.operand = r.n], r,
                                 FirstErr(<<Err(IndexErr(r.n.result)),
                                            Err(IndexErr(n.result))>>))
                 IN Built(AllocAndBuild(n.operand, s))
           [] n.type = "And" ->
                 LET Circuit(r, e) ==
                         IF r.s.err # "" THEN r
                         ELSE IF e # "" THEN R(r.n, Raise(r.s, e))
                         ELSE R(r.n, mcx_gate(r.s, Tops(r.n.operands), Top(n.result)))
                     Built(r) ==
                         Circuit(r, FirstErr(<<Err(TopsErr(r.n.operands)),
                                               Err(IndexErr(n.result))>>))
                 IN Built(LogicBuild(n, s, 1))
           [] n.type = "Or" ->
                 LET Gates(r, tops) ==
                         R(r.n, x_gate(x_gates(mcx_gate(x_gates(r.s, tops), tops,
                                                        Top(n.result)),
                                               tops),
                                       Top(n.result)))
                     Circuit(r, e) ==
                         IF r.s.err # "" THEN r
                         ELSE IF e # "" THEN R(r.n, Raise(r.s, e))
                         ELSE Gates(r, Tops(r.n.operands))
                     Built(r) ==
                         Circuit(r, FirstErr(<<Err(TopsErr(r.n.operands)),
                                               Err(IndexErr(n.result))>>))
                 IN Built(LogicBuild(n, s, 1))
           [] n.type = "int" -> R(n, Raise(s, "AttributeError"))
           [] OTHER -> R(n, Raise(s, "NotImplementedError"))   \* Expression.build

\* reverse(quantum_evaluator)
reverse(n, s) ==
    IF s.err # "" THEN R(n, s)
    ELSE CASE n.type = "Power" ->
                 LET Released(r) == R([n EXCEPT !.base_expr = r.n], r.s)
                 IN Released(ReverseAndRelease(
                        n.base_expr,
                        multiproduct_dg(s, <<n.base_expr.result>>, <<n.exponent>>,
                                        n.result, 1)))
           [] n.type = "Product" ->
                 ProductReverse(n, multiproduct_dg(s, FilteredResults(n),
                                                   n.filtered_exponents, n.result, 1), 1)
           [] n.type = "Summation" -> SummationReverse(n, s, 1)
           [] n.type \in RelationalTypes -> RelationalReverse(n, s)
           [] n.type = "Not" ->
                 LET e == FirstErr(<<Err(IndexErr(n.result)), Err(IndexErr(n.operand.result))>>)
                 IN IF e # "" THEN R(n, Raise(s, e))
                    ELSE LET Released(r) == R([n EXCEPT !.operand = r.n], r.s)
                         IN Released(ReverseAndRelease(
                                n.operand,
                                cx_gate(x_gate(s, Top(n.result)),
                                        Top(n.operand.result), Top(n.result))))
           [] n.type = "And" ->
                 LET e == FirstErr(<<Err(TopsErr(n.operands)), Err(IndexErr(n.result))>>)
                 IN IF e # "" THEN R(n, Raise(s, e))
                    ELSE LogicReverse(n, mcx_gate(s, Tops(n.operands), Top(n.result)), 1)
           [] n.type = "Or" ->
                 LET e == FirstErr(<<Err(IndexErr(n.result)), Err(TopsErr(n.operands))>>)
                 IN IF e # "" THEN R(n, Raise(s, e))
                    ELSE LET Gates(tops) ==
                                 x_gates(mcx_gate(x_gates(x_gate(s, Top(n.result)), tops),
                                                  tops, Top(n.result)),
                                         tops)
                         IN LogicReverse(n, Gates(Tops(n.operands)), 1)
           [] n.type = "int" -> R(n, Raise(s, "AttributeError"))
           [] OTHER -> R(n, Raise(s, "NotImplementedError"))   \* Expression.reverse

(***************************************************************************)
(* parser.py: the semantic actions that build the tree.  A parse value is  *)
(* an int (constants are folded while parsing) or an expression node.      *)
(***************************************************************************)
ParsingError == [type |-> "ParsingError"]

\* Summation.merge_add / Summation.merge_sub
merge_sum(left, right, signal) ==
    Summation((IF left.type = "Summation" THEN left.operands ELSE <<left>>)
                 \o <<right>>,
              (IF left.type = "Summation" THEN left.signals ELSE <<TRUE>>)
                 \o <<signal>>)

\* Product.merge
merge_product(left, right) ==
    Product((IF left.type = "Product" THEN left.operands ELSE <<left>>) \o <<right>>)

\* And.merge / Or.merge
merge_logic(type, left, right) ==
    [type |-> type,
     operands |-> (IF left.type = type THEN left.operands ELSE <<left>>) \o <<right>>,
     result |-> None]

BoolInt(b) == PyInt(IF b THEN 1 ELSE 0)

\* what a semantic action can raise instead of producing a parse value
Exceptions == {"ParsingError", "ZeroDivisionError", "AssertionError"}

\* p_expression_or ... p_expression_division: 'expression : expression OP expression'.
\* An exception raised for an operand aborts the parse.  Python's ** with a
\* negative exponent gives a float (ZeroDivisionError for base 0), which is
\* neither an int nor an Expression; // by 0 raises ZeroDivisionError.
\* And.merge / Or.merge assert that both operands are Expressions.
p_expression_binary(op, p1, p3) ==
    IF p1.type \in Exceptions THEN p1
    ELSE IF p3.type \in Exceptions THEN p3
    ELSE IF IsInt(p1) /\ IsInt(p3)
    THEN CASE op = "or" -> BoolInt(p1.value % 2 = 1 \/ p3.value % 2 = 1)
           [] op = "and" -> BoolInt(p1.value % 2 = 1 /\ p3.value % 2 = 1)
           [] op = "=" -> BoolInt(p1.value = p3.value)
           [] op = "!=" -> BoolInt(p1.value # p3.value)
           [] op = "<" -> BoolInt(p1.value < p3.value)
           [] op = ">" -> BoolInt(p1.value > p3.value)
           [] op = "+" -> PyInt(p1.value + p3.value)
           [] op = "-" -> PyInt(p1.value - p3.value)
           [] op = "*" -> PyInt(p1.value * p3.value)
           [] op = "^" -> IF p3.value >= 0 THEN PyInt(Pow(p1.value, p3.value))
                          ELSE IF p1.value = 0 THEN [type |-> "ZeroDivisionError"]
                          ELSE [type |-> "float"]
           [] op = "/" -> IF p3.value # 0 THEN PyInt(p1.value \div p3.value)
                          ELSE [type |-> "ZeroDivisionError"]
    ELSE IF op = "^"
    THEN IF IsInt(p3) /\ p1.type # "float" THEN Power(p1, p3.value)
         ELSE ParsingError
    ELSE IF op = "/" \/ p1.type = "float" \/ p3.type = "float" THEN ParsingError
    ELSE CASE op \in {"or", "and"} ->
                 IF IsInt(p1) \/ IsInt(p3) THEN [type |-> "AssertionError"]
                 ELSE merge_logic(IF op = "or" THEN "Or" ELSE "And", p1, p3)
           [] op = "=" -> RelationalExpression("Equal", p1, p3)
           [] op = "!=" -> RelationalExpression("NotEqual", p1, p3)
           [] op = "<" -> RelationalExpression("LessThan", p1, p3)
           [] op = ">" -> RelationalExpression("GreaterThan", p1, p3)
           [] op = "+" -> merge_sum(p1, p3, TRUE)
           [] op = "-" -> merge_sum(p1, p3, FALSE)
           [] op = "*" -> merge_product(p1, p3)

\* p_expression_not, p_expression_uminus, p_expression_parentheses;
\* Parentheses.__init__ asserts that the inner value is an Expression
p_expression_unary(op, p2) ==
    IF p2.type \in Exceptions THEN p2
    ELSE IF IsInt(p2)
    THEN CASE op = "not" -> BoolInt(~(p2.value % 2 = 1))
           [] op = "-" -> PyInt(-p2.value)
           [] op = "()" -> p2
    ELSE IF p2.type = "float"
    THEN IF op = "()" THEN [type |-> "AssertionError"] ELSE ParsingError
    ELSE CASE op = "not" -> Not(p2)
           [] op = "-" -> UnaryMinus(p2)
           [] op = "()" -> Parentheses(p2)

\* precedence = (...): the level of the operator at the root of a parse
\* value, lowest first; identifiers, numbers and parentheses bind tightest
Level(n) ==
    CASE n.type = "Or" -> 1
      [] n.type = "And" -> 2
      [] n.type = "Not" -> 3
      [] n.type \in {"LessThan", "GreaterThan"} -> 4
      [] n.type \in {"Equal", "NotEqual"} -> 5
      [] n.type = "Summation" -> 6
      [] n.type = "Product" -> 7
      [] n.type = "UnaryMinus" -> 8
      [] n.type = "Power" -> 9
      [] OTHER -> 10

OpLevel(op) ==
    CASE op = "or" -> 1
      [] op = "and" -> 2
      [] op = "not" -> 3
      [] op \in {"<", ">"} -> 4
      [] op \in {"=", "!="} -> 5
      [] op \in {"+", "-"} -> 6
      [] op \in {"*", "/"} -> 7
      [] op = "^" -> 9
      [] OTHER -> 10

\* a left operand binds at least as tightly as a left-associative operator
\* (more tightly than the right-associative ^); a right operand binds more
\* tightly, or starts with a prefix operator.  An operand that does not is
\* written in parentheses, which the parser keeps as a Parentheses node.
AsLeft(op, x) ==
    IF IsInt(x) \/ Level(x) > OpLevel(op) \/ (op # "^" /\ Level(x) = OpLevel(op))
    THEN x ELSE Parentheses(x)

AsRight(op, x) ==
    IF IsInt(x) \/ Level(x) > OpLevel(op) \/ x.type \in {"Not", "UnaryMinus"}
    THEN x ELSE Parentheses(x)

\* the operand of a prefix operator: 'not' takes what binds as tightly as
\* itself, unary minus what binds as tightly as itself
AsOperand(op, x) ==
    IF op = "()" \/ IsInt(x) \/ Level(x) >= (IF op = "not" THEN 3 ELSE 8)
    THEN x ELSE Parentheses(x)

Binary(op, x, y) == p_expression_binary(op, AsLeft(op, x), AsRight(op, y))
Unary(op, x) == p_expression_unary(op, AsOperand(op, x))

\* p_register_definition_expression: 'regdefx : ID [ NUMBER ] := expression'
\* for the register `t`; RegisterExpressionDefinition.__init__ asserts that
\* the right-hand side is an Expression
p_register_definition_expression(n, x) ==
    IF n <= 0 \/ x.type \in {"Identifier", "int"} THEN ParsingError
    ELSE IF x.type = "float" THEN [type |-> "AssertionError"]
    ELSE [type |-> "RegisterExpressionDefinition", name |-> "t", n |-> n, expr |-> x]

\* the right-hand sides for which the parser produces a definition
IsRegdefx(x) ==
    /\ x.type \notin Exceptions
    /\ p_register_definition_expression(WidthT, x).type \notin Exceptions

(***************************************************************************)
(* The programs: `t[WidthT] := expr` after set definitions of a and b.     *)
(* expr ranges over the trees the semantic actions build from leaves       *)
(* (Level1), from one composite operand and one leaf and from two         *)
(* composite operands, and sums of three registers (Level2).              *)
(***************************************************************************)
Ids == {Identifier("a"), Identifier("b")}
Consts == {PyInt(k) : k \in 0..MaxConst}
Leafs == Ids \cup Consts
BinOps == {"or", "and", "=", "!=", "<", ">", "+", "-", "*"}
UnOps == {"not", "-", "()"}
Exponents == (-1)..MaxExp

Level1 ==
    {Binary(op, x, y) : op \in BinOps, x \in Leafs, y \in Leafs}
    \cup {Unary(op, x) : op \in UnOps, x \in Ids}
    \cup {Binary("^", x, PyInt(e)) : x \in Ids, e \in Exponents}

Core ==
    {c \in {Binary(op, xy[1], xy[2]) :
              op \in BinOps,
              xy \in {<<Identifier("a"), Identifier("b")>>,
                      <<Identifier("a"), PyInt(1)>>,
                      <<PyInt(1), Identifier("a")>>}}
            \cup {Unary(op, Identifier("a")) : op \in UnOps}
            \cup {Binary("^", Identifier("a"), PyInt(e)) : e \in {0, MaxExp}}
       : IsExpression(c) /\ c.type # "ParsingError"}

Level2 ==
    {Binary(op, c, y) : op \in BinOps, c \in Core, y \in {Identifier("b"), PyInt(2)}}
    \cup {Binary(op, y, c) : op \in BinOps, c \in Core, y \in {Identifier("b"), PyInt(2)}}
    \cup {Unary(op, c) : op \in UnOps, c \in Core}
    \cup {Binary("^", c, PyInt(MaxExp)) : c \in Core}
    \cup {Binary(op, Unary("not", Identifier("a")), Unary("not", Identifier("b"))) :
             op \in BinOps}
    \cup {Binary("+", Binary("+", x, x), y) : x \in Ids, y \in Ids}

\* expressions that name z, which no definition defines
Undefined ==
    {Binary("+", Identifier("z"), PyInt(1)), Unary("not", Identifier("z")),
     Binary("=", Identifier("a"), Identifier("z"))}

Programs == {x \in Level1 \cup Level2 \cup Undefined : IsRegdefx(x)}

(***************************************************************************)
(* RegisterExpressionDefinition                                            *)
(***************************************************************************)
\* RegisterExpressionDefinition.build of the definition of t
RegisterExpressionDefinition_build(e, s) ==
    LET Built(r) ==
            R(r.n, register_by_register_addition(r.s, r.n.result,
                                                 get_qiskit_register("t")))
        Allocated(r) == Built(build(r.n, r.s))
        PreBuilt(r) == Allocated(AllocIfNeeded(r.n, r.s))
    IN PreBuilt(pre_build(e, s))

\* `target -= expr.result` as a step of the reverse pass, recorded in the log
SubtractFromTarget(e, s) ==
    LET Done(s1) == [s1 EXCEPT !.log = Append(s1.log, <<"subtract", 0>>)]
    IN Done(register_by_register_subtraction(s, e.result, get_qiskit_register("t")))

\* `expr.reverse(quantum_evaluator)` as a step of the reverse pass, recorded
\* in the log
ReverseExpression(e, s) ==
    LET Done(r) == R(r.n, [r.s EXCEPT !.log = Append(r.s.log, <<"reverse", 0>>)])
    IN Done(reverse(e, s))

\* the steps in another order: expr.reverse, `target -= expr.result`, release
RegisterExpressionDefinition_reverse_first(e, s) ==
    LET Release(r) == ReleaseIfNeeded(r.n, r.s)
        Subtract(r) == Release(R(r.n, SubtractFromTarget(r.n, r.s)))
    IN Subtract(ReverseExpression(e, s))

\* RegisterExpressionDefinition.reverse of the definition of t
RegisterExpressionDefinition_reverse(e, s) ==
    LET Release(r) == ReleaseIfNeeded(r.n, r.s)
    IN Release(ReverseExpression(e, SubtractFromTarget(e, s)))

\* the walk's state, from the variables
Walk == [pool |-> pool, n_ancillas |-> n_ancillas, val |-> val, log |-> log,
         err |-> "", q |-> 0, qs |-> <<>>]

Commit(r) ==
    /\ expr' = r.n
    /\ pool' = r.s.pool
    /\ n_ancillas' = r.s.n_ancillas
    /\ val' = r.s.val
    /\ log' = r.s.log
    /\ err' = r.s.err

\* the basis state with a = va, b = vb and t = 0
InitVal(va, vb) ==
    natural_to_binary(va, WidthA) \o natural_to_binary(vb, WidthB)
        \o [i \in 1..WidthT |-> 0]

Init ==
    /\ pc = "parsed"
    /\ expr \in Programs
    /\ \E va \in 0..(Pow2(WidthA) - 1), vb \in 0..(Pow2(WidthB) - 1) :
          val = InitVal(va, vb)
    /\ val0 = val
    /\ pool = <<>>
    /\ n_ancillas = 0
    /\ log = <<>>
    /\ err = ""
    /\ regdefseq = <<>>
    /\ terminator = ""
    /\ check = expr        \* the expression as the parser produced it

\* build_all, step 3: the definition is built
DefBuild ==
    /\ pc = "parsed"
    /\ Commit(RegisterExpressionDefinition_build(expr, Walk))
    /\ pc' = "built"
    /\ UNCHANGED <<val0, regdefseq, terminator, check>>

\* build_all, step 5: the definition is reversed
DefReverse ==
    /\ pc = "built"
    /\ err = ""
    /\ Commit(RegisterExpressionDefinition_reverse(expr, Walk))
    /\ pc' = "reversed"
    /\ UNCHANGED <<val0, regdefseq, terminator, check>>

Next == DefBuild \/ DefReverse

Spec == Init /\ [][Next]_vars

(***************************************************************************)
(* A definition that is built again after its reverse (SpecRebuild), as a  *)
(* whole or by the build of its expression alone.                          *)
(***************************************************************************)
\* RegisterExpressionDefinition.build, called again after reverse
DefRebuild ==
    /\ pc = "reversed"
    /\ err = ""
    /\ Commit(RegisterExpressionDefinition_build(expr, Walk))
    /\ pc' = "rebuilt"
    /\ UNCHANGED <<val0, regdefseq, terminator, check>>

\* after reverse, the expression is recomputed without a new pre_build:
\*   if expr.needs_result_allocation(): expr.alloc_result_qubits(quantum_evaluator)
\*   expr.build(quantum_evaluator)
ExprRebuild ==
    /\ pc = "reversed"
    /\ err = ""
    /\ LET Allocated(r) == Commit(BuildAlways(r.n, r.s))
       IN Allocated(AllocIfNeeded(expr, Walk))
    /\ pc' = "recomputed"
    /\ UNCHANGED <<val0, regdefseq, terminator, check>>

NextRebuild == DefBuild \/ DefReverse \/ DefRebuild \/ ExprRebuild

SpecRebuild == Init /\ [][NextRebuild]_vars

(***************************************************************************)
(* pre_build on its own (SpecPreBuild): the expression of the definition   *)
(* of t is pre-built, and pre-built a second time.                         *)
(***************************************************************************)
\* expr.pre_build(quantum_evaluator), the first call
PreBuild ==
    /\ pc = "parsed"
    /\ Commit(pre_build(expr, Walk))
    /\ pc' = "pre_built"
    /\ UNCHANGED <<val0, regdefseq, terminator, check>>

\* expr.pre_build(quantum_evaluator), called again on the same node
PreBuildAgain ==
    /\ pc = "pre_built"
    /\ err = ""
    /\ Commit(pre_build(expr, Walk))
    /\ pc' = "pre_built_again"
    /\ UNCHANGED <<val0, regdefseq, terminator, check>>

NextPreBuild == PreBuild \/ PreBuildAgain

SpecPreBuild == Init /\ [][NextPreBuild]_vars

(***************************************************************************)
(* FullCode.check_definition_errors                                        *)
(***************************************************************************)
RegisterSetDefinition(name) ==
    [type |-> "RegisterSetDefinition", name |-> name, line |-> 0]

RegisterExpressionDefinition(name, e) ==
    [type |-> "RegisterExpressionDefinition", name |-> name, line |-> 0, expr |-> e]

Amplify(target) == [type |-> "Amplify", target |-> target, line |-> 0]

\* raise SynthError(line, description)
SynthError(line, description, name) ==
    [kind |-> "SynthError", line |-> line, description |-> description,
     name |-> name]

NoError == [kind |-> "", line |-> 0, description |-> "", name |-> ""]

\* a membership test that looks at the last defined register only
name_is_last_defined(name, defined_registers) ==
    defined_registers # <<>> /\ name = defined_registers[Len(defined_registers)]

\* regdef.name in defined_registers
name_is_defined(name, defined_registers) == name \in Range(defined_registers)

\* the leafs of an expression definition that are not in defined_registers
undefined_leafs(regdef, defined_registers) ==
    IF regdef.type = "RegisterExpressionDefinition"
    THEN {leaf \in get_leafs(regdef.expr) : leaf \notin Range(defined_registers)}
    ELSE {}

\* the loop over regdefseq, from definition i on.  get_leafs returns a set,
\* whose iteration order decides which undefined leaf is reported: any.
RECURSIVE regdefseq_loop(_, _, _)
regdefseq_loop(seq, i, defined_registers) ==
    IF i > Len(seq) THEN {NoError}
    ELSE LET regdef == seq[i] IN
         IF name_is_defined(regdef.name, defined_registers)
         THEN {SynthError(regdef.line, "already defined", regdef.name)}
         ELSE IF undefined_leafs(regdef, defined_registers) # {}
         THEN {SynthError(regdef.line, "not defined", leaf) :
                 leaf \in undefined_leafs(regdef, defined_registers)}
         ELSE regdefseq_loop(seq, i + 1, Append(defined_registers, regdef.name))

\* check_definition_errors: the outcomes it can end with
check_definition_errors(seq, term) ==
    {IF o.kind # "" THEN o
     ELSE IF term.type = "Amplify"
             /\ term.target \notin {seq[i].name : i \in DOMAIN seq}
     THEN SynthError(seq[Len(seq)].line, "target not defined", term.target)
     ELSE NoError : o \in regdefseq_loop(seq, 1, <<>>)}

(***************************************************************************)
(* The programs given to the semantic check: up to MaxDefs definitions of  *)
(* a, b and r followed by an amplify terminator.                           *)
(***************************************************************************)
CheckExprs ==
    {Binary("+", Identifier("a"), PyInt(1)), Binary("+", Identifier("z"), PyInt(1)),
     Unary("not", Identifier("a")), Unary("not", Identifier("z")),
     Binary("=", Identifier("a"), Identifier("z")),
     Unary("()", Identifier("z")), Unary("-", Identifier("z")),
     Binary("^", Identifier("z"), PyInt(2)),
     Binary("and", Identifier("a"), Identifier("z")),
     Binary("*", Identifier("z"), Identifier("a"))}

Definitions ==
    {RegisterSetDefinition(name) : name \in {"a", "b", "r"}}
    \cup {RegisterExpressionDefinition("r", e) : e \in {x \in CheckExprs : IsRegdefx(x)}}

RECURSIVE SeqsUpTo(_, _)
SeqsUpTo(S, n) ==
    IF n = 0 THEN {<<>>}
    ELSE LET shorter == SeqsUpTo(S, n - 1)
         IN shorter \cup {Append(sq, x) : sq \in shorter, x \in S}

\* the line each node records: the position of its statement, or 0 for
\* every node (a parse that does not track the lines of productions)
Numbered(seq, tracking) ==
    [i \in DOMAIN seq |-> [seq[i] EXCEPT !.line = IF tracking THEN i ELSE 0]]

InitCheck ==
    /\ pc = "parsed"
    /\ \E seq \in SeqsUpTo(Definitions, MaxDefs) \ {<<>>}, tracking \in BOOLEAN,
          target \in {"r", "z"} :
          /\ regdefseq = Numbered(seq, tracking)
          /\ terminator = Numbered(Append(seq, Amplify(target)), tracking)[Len(seq) + 1]
    /\ check = NoError
    /\ expr = None
    /\ val = <<>>
    /\ val0 = <<>>
    /\ pool = <<>>
    /\ n_ancillas = 0
    /\ log = <<>>
    /\ err = ""

\* FullCode.check_definition_errors()
CheckDefinitionErrors ==
    /\ pc = "parsed"
    /\ check' \in check_definition_errors(regdefseq, terminator)
    /\ pc' = "checked"
    /\ UNCHANGED <<expr, val, val0, pool, n_ancillas, log, err, regdefseq,
                   terminator>>

NextCheck == CheckDefinitionErrors

SpecCheck == InitCheck /\ [][NextCheck]_vars

(***************************************************************************)
(* utils.py on its own: a constant is written to a register of n qubits    *)
(* with natural_to_binary and read back with binary_to_natural.  expr is   *)
(* the constant, val the register, check the natural read back.            *)
(***************************************************************************)
InitBits ==
    /\ pc = "bits"
    /\ expr \in {PyInt(x) : x \in 0..MaxNat}
    /\ val \in {[i \in 1..n |-> 0] : n \in 1..MaxBits}
    /\ val0 = val
    /\ check = 0
    /\ pool = <<>>
    /\ n_ancillas = 0
    /\ log = <<>>
    /\ err = ""
    /\ regdefseq = <<>>
    /\ terminator = ""

\* natural_to_binary(x, n)
NaturalToBinary ==
    /\ pc = "bits"
    /\ val' = natural_to_binary(expr.value, Len(val))
    /\ pc' = "encoded"
    /\ UNCHANGED <<expr, val0, pool, n_ancillas, log, err, regdefseq, terminator,
                   check>>

\* binary_to_natural(x)
BinaryToNatural ==
    /\ pc = "encoded"
    /\ check' = binary_to_natural(val)
    /\ pc' = "decoded"
    /\ UNCHANGED <<expr, val, val0, pool, n_ancillas, log, err, regdefseq,
                   terminator>>

NextBits == NaturalToBinary \/ BinaryToNatural

SpecBits == InitBits /\ [][NextBits]_vars

(***************************************************************************)
(* parser.py, one statement `t[n] := rhs` (SpecParse).  val0 is the form   *)
(* of the right-hand side: <<op, x, y>> for `x op y`, <<op, x>> for a      *)
(* prefix operator or parentheses, <<"", x>> for a lone operand.  The      *)
(* operands are parse values: identifiers, numbers, negated numbers and    *)
(* the float of `2 ^ -1` (which the grammar allows as a right operand, as  *)
(* the operand of a prefix operator or parentheses, and alone).  check     *)
(* holds n.                                                                *)
(***************************************************************************)
InitParse ==
    /\ pc = "parse"
    /\ val0 \in
         LET Numbers == Consts \cup {p_expression_unary("-", c) : c \in Consts}
             Float == p_expression_binary("^", PyInt(2), PyInt(-1))
         IN {<<op, x, y>> : op \in BinOps \cup {"^", "/"},
                            x \in Ids \cup Numbers,
                            y \in Ids \cup Numbers \cup {Float}}
            \cup {<<op, x>> : op \in UnOps \cup {""},
                              x \in Ids \cup Numbers \cup {Float}}
    /\ check \in {0, WidthT}
    /\ expr = [type |-> ""]
    /\ val = <<>> /\ pool = <<>> /\ n_ancillas = 0 /\ log = <<>> /\ err = ""
    /\ regdefseq = <<>> /\ terminator = ""

\* the reductions of the right-hand side to one parse value
ParseExpression ==
    /\ pc = "parse"
    /\ LET Parsed(e) ==
               IF e.type \in Exceptions
               THEN /\ err' = e.type /\ pc' = "rejected" /\ UNCHANGED expr
               ELSE /\ expr' = e /\ pc' = "expression" /\ UNCHANGED err
       IN Parsed(IF Len(val0) = 3 THEN Binary(val0[1], val0[2], val0[3])
                 ELSE IF val0[1] = "" THEN val0[2]
                 ELSE Unary(val0[1], val0[2]))
    /\ UNCHANGED <<val, val0, pool, n_ancillas, log, regdefseq, terminator, check>>

\* the reduction of the statement
ParseRegdefx ==
    /\ pc = "expression"
    /\ LET Parsed(d) ==
               IF d.type \in Exceptions
               THEN /\ err' = d.type /\ pc' = "rejected" /\ UNCHANGED regdefseq
               ELSE /\ regdefseq' = <<d>> /\ pc' = "parsed" /\ UNCHANGED err
       IN Parsed(p_register_definition_expression(check, expr))
    /\ UNCHANGED <<expr, val, val0, pool, n_ancillas, log, terminator, check>>

NextParse == ParseExpression \/ ParseRegdefx

SpecParse == InitParse /\ [][NextParse]_vars

(***************************************************************************)
(* Properties of the synthesis of one definition (Spec)                    *)
(***************************************************************************)
\* calls of alloc_ancilla (kind "alloc") or free_ancilla (kind "free") on q
Count(kind, q) == Cardinality({i \in DOMAIN log : log[i] = <<kind, q>>})

Ancillas == (NamedQubits + 1)..(NamedQubits + n_ancillas)

\* ancillas handed out and not handed back
Outstanding == n_ancillas - Len(pool)

\* C1 (Conservation): after a definition's build followed by its reverse,
\* every ancilla obtained through alloc_ancilla has been handed to
\* free_ancilla exactly once, so that no ancilla is outstanding.
C1_Conservation ==
    pc = "reversed" =>
        /\ \A q \in Ancillas : Count("alloc", q) = Count("free", q)
        /\ Outstanding = 0

\* the named registers hold their initial values and every ancilla holds 0
Restored == val = val0 \o [i \in 1..n_ancillas |-> 0]

\* C2 (Reversibility): build followed by reverse, from a zero result and zero
\* ancillas, leaves the result, every aux / child ancilla and every operand
\* register at their initial values, for every basis value of the operands.
C2_Reversibility == (pc = "reversed" /\ err = "") => Restored

\* C3: synthesis of a register expression definition either completes or
\* raises SynthError; no other kind of failure is reachable.
C3_CompletesOrSynthError == err \in {"", "SynthError"}

\* the value of the j-th register operand of a built Summation, with its sign
SignedOperand(v, n, j) ==
    LET x == RegVal(v, n.operands[n.filtered_operands[j]].result)
    IN IF n.filtered_signals[j] THEN x ELSE -x

\* (sum of the signed register operands + const_term) mod 2^width
SummationValue(v, n, width) ==
    (SeqSum([j \in DOMAIN n.filtered_operands |-> SignedOperand(v, n, j)])
        + n.const_term) % Pow2(width)

\* C6 (Summation value): after pre_build and build of a Summation its result
\* register holds (sum of signed register operands + const_term) mod 2^n,
\* and the register defined by it (zero before) holds the same value, as in
\* t := a + 1.
C6_SummationValue ==
    (pc = "built" /\ err = "" /\ expr.type = "Summation") =>
        /\ RegVal(val, expr.result) = SummationValue(val, expr, Len(expr.result))
        /\ RegVal(val, get_qiskit_register("t"))
              = SummationValue(val, expr, Len(expr.result)) % Pow2(WidthT)

RECURSIVE SeqProd(_)
SeqProd(s) == IF s = <<>> THEN 1 ELSE Head(s) * SeqProd(Tail(s))

\* (const_factor * product of base_i ^ e_i) mod 2^width
ProductValue(v, n, width) ==
    (n.const_factor
        * SeqProd([j \in DOMAIN n.filtered_operands |->
                     Pow(RegVal(v, n.operands[n.filtered_operands[j]].result),
                         n.filtered_exponents[j])])) % Pow2(width)

\* C7 (Product value): after pre_build and build of a Product with folded
\* integer factor c and register operands base_i with exponents e_i, the
\* result register (zero before, width n) holds (c * PROD base_i^e_i) mod 2^n.
C7_ProductValue ==
    (pc = "built" /\ err = "" /\ expr.type = "Product") =>
        RegVal(val, expr.result) = ProductValue(val, expr, Len(expr.result))

\* the named registers a and b hold their initial values
OperandsUnchanged ==
    \A q \in 1..(WidthA + WidthB) : val[q] = val0[q]

\* C8 (register = register): register_equal_register flips the result qubit
\* if and only if the two operand values are equal, and leaves both operands
\* and the aux ancillas unchanged.
C8_EqualRegisters ==
    (pc = "built" /\ err = "" /\ expr.type = "Equal" /\ expr.mode = "rr") =>
        /\ val[expr.result[1]] = 1
              <=> RegVal(val, expr.left.result) = RegVal(val, expr.right.result)
        /\ OperandsUnchanged
        /\ \A i \in DOMAIN expr.aux : val[expr.aux[i]] = 0

\* a relational node over a defined register and a constant (mode rc or cr)
RegisterAndConstant(n) ==
    \/ IsInt(n.left) /\ n.right.type = "Identifier" /\ n.right.label \in DOMAIN RegSize
    \/ IsInt(n.right) /\ n.left.type = "Identifier" /\ n.left.label \in DOMAIN RegSize

\* the value of an operand: the constant, or what its register holds
OperandValue(v, x) == IF IsInt(x) THEN x.value ELSE RegVal(v, x.result)

\* C9 (register = constant): for an Equal node in rc or cr mode and every
\* constant k >= 0 (k = 0 and k >= 2^n included) pre_build succeeds and build
\* sets the result qubit to 1 if and only if the register holds k.
C9_EqualConstant ==
    (pc = "built" /\ expr.type = "Equal" /\ RegisterAndConstant(expr)) =>
        /\ err = ""
        /\ val[expr.result[1]] = 1
              <=> OperandValue(val, expr.left) = OperandValue(val, expr.right)

\* C10 (register < constant, register > constant): for LessThan and
\* GreaterThan in rc and cr mode the register is widened so that the
\* difference fits, and build sets the result qubit to 1 if and only if the
\* relation holds, for every basis value of the register.
C10_CompareConstant ==
    (pc = "built" /\ expr.type \in {"LessThan", "GreaterThan"}
                  /\ RegisterAndConstant(expr)) =>
        /\ err = ""
        /\ val[expr.result[1]] = 1
              <=> IF expr.type = "LessThan"
                  THEN OperandValue(val, expr.left) < OperandValue(val, expr.right)
                  ELSE OperandValue(val, expr.left) > OperandValue(val, expr.right)

(***************************************************************************)
(* Properties of the semantic check (SpecCheck)                            *)
(***************************************************************************)
\* every identifier that occurs in an expression, under any node
RECURSIVE AllIdentifiers(_)
AllIdentifiers(n) ==
    CASE n.type = "Identifier" -> {n.label}
      [] n.type = "int" -> {}
      [] n.type \in {"Parentheses", "UnaryMinus"} -> AllIdentifiers(n.inner_expr)
      [] n.type = "Power" -> AllIdentifiers(n.base_expr)
      [] n.type = "Not" -> AllIdentifiers(n.operand)
      [] n.type \in {"Product", "Summation", "And", "Or"} ->
            UNION {AllIdentifiers(n.operands[i]) : i \in DOMAIN n.operands}
      [] OTHER -> AllIdentifiers(n.left) \cup AllIdentifiers(n.right)

\* the names defined strictly before definition i
DefinedBefore(seq, i) == {seq[j].name : j \in 1..(i - 1)}

\* the identifiers of definition i that no earlier definition defines
OutOfScope(seq, i) ==
    IF seq[i].type = "RegisterExpressionDefinition"
    THEN AllIdentifiers(seq[i].expr) \ DefinedBefore(seq, i)
    ELSE {}

\* C4 (Scoping): check_definition_errors accepts a program only if every
\* Identifier anywhere in a register expression definition (under Not, And,
\* Or, relational, Power, UnaryMinus and Parentheses nodes too) names a
\* register defined by a strictly earlier definition; otherwise it raises
\* SynthError.
C4_Scoping ==
    pc = "checked" =>
        IF \A i \in DOMAIN regdefseq : OutOfScope(regdefseq, i) = {}
        THEN check.kind \in {"", "SynthError"}
        ELSE check.kind = "SynthError"

\* definition i has the name of an earlier definition
Repeats(seq, i) == seq[i].name \in DefinedBefore(seq, i)

\* the first definition that repeats a name, 0 when the names are distinct
FirstRepeat(seq) ==
    IF \E i \in DOMAIN seq : Repeats(seq, i)
    THEN CHOOSE i \in DOMAIN seq :
            Repeats(seq, i) /\ \A j \in 1..(i - 1) : ~Repeats(seq, j)
    ELSE 0

TwoRegisters(n) ==
    /\ n.left.type = "Identifier" /\ n.left.label \in DOMAIN RegSize
    /\ n.right.type = "Identifier" /\ n.right.label \in DOMAIN RegSize

\* C11 (register < register, register > register): for LessThan and
\* GreaterThan over two registers of any widths (a right operand wider than
\* the left one included) build completes and sets the result qubit to 1 if
\* and only if the relation holds, and it leaves both operands and the sign
\* ancilla as they were.
C11_CompareRegisters ==
    (pc = "built" /\ expr.type \in {"LessThan", "GreaterThan"}
                  /\ TwoRegisters(expr)) =>
        /\ err = ""
        /\ val[expr.result[1]] = 1
              <=> IF expr.type = "LessThan"
                  THEN RegVal(val, expr.left.result) < RegVal(val, expr.right.result)
                  ELSE RegVal(val, expr.left.result) > RegVal(val, expr.right.result)
        /\ OperandsUnchanged
        /\ \A i \in DOMAIN expr.aux : val[expr.aux[i]] = 0

\* the nodes of a tree: the expressions in it, the tree itself included
RECURSIVE Nodes(_)
Nodes(n) ==
    CASE n.type = "int" -> {}
      [] n.type = "Identifier" -> {n}
      [] n.type \in {"Parentheses", "UnaryMinus"} -> {n} \cup Nodes(n.inner_expr)
      [] n.type = "Power" -> {n} \cup Nodes(n.base_expr)
      [] n.type = "Not" -> {n} \cup Nodes(n.operand)
      [] n.type \in {"Product", "Summation", "And", "Or"} ->
            {n} \cup UNION {Nodes(n.operands[i]) : i \in DOMAIN n.operands}
      [] OTHER -> {n} \cup Nodes(n.left) \cup Nodes(n.right)

\* the widths n_i of the register operands of a Product or Summation
OperandWidths(n) ==
    [j \in DOMAIN n.filtered_operands |->
        Len(n.operands[n.filtered_operands[j]].result)]

\* a Product or Summation whose result register and whose operands' result
\* registers exist
Sized(n) ==
    /\ ~is_none(n.result)
    /\ n.filtered_operands # <<>>
    /\ \A j \in DOMAIN n.filtered_operands :
          ~is_none(n.operands[n.filtered_operands[j]].result)

\* C12 (Product sizing): every Product with register operands of widths
\* n_i, accumulated exponents e_i and folded constant c >= 1 gets a result
\* register of SUM_i n_i * e_i + ceil(log2 c) qubits.
C12_ProductSize ==
    pc = "built" =>
        \A n \in Nodes(expr) :
            (n.type = "Product" /\ Sized(n) /\ n.const_factor >= 1) =>
                Len(n.result)
                    = SeqSum([j \in DOMAIN n.filtered_operands |->
                                OperandWidths(n)[j] * n.filtered_exponents[j]])
                      + CeilLog2(n.const_factor)

\* 3 * a is built: the result register has WidthA + 2 qubits
C12_Witness ==
    /\ pc = "built" /\ err = ""
    /\ expr.type = "Product" /\ Sized(expr)
    /\ expr.const_factor = 3
    /\ OperandWidths(expr) = <<WidthA>>
    /\ Len(expr.result) = WidthA + 2

\* ceil(log2 |c|), 0 for c = 0
AbsBits(c) == IF c = 0 THEN 0 ELSE CeilLog2(IF c < 0 THEN -c ELSE c)

\* C13 (Summation sizing): every Summation with register operands of widths
\* n_i and folded constant const_term, positive, zero or negative, gets a
\* result register of max(max_i(n_i) + 1, ceil(log2 |const_term|)) qubits.
C13_SummationSize ==
    pc = "built" =>
        \A n \in Nodes(expr) :
            (n.type = "Summation" /\ Sized(n)) =>
                Len(n.result)
                    = Max2(SeqMax(OperandWidths(n)) + 1, AbsBits(n.const_term))

(***************************************************************************)
(* Properties of utils.py (SpecBits)                                       *)
(***************************************************************************)
\* C14 (Bit round trip): binary_to_natural(natural_to_binary(x, n)) is
\* x mod 2^n, and natural_to_binary returns exactly n bits, the least
\* significant first: the first bit is the parity of x and the last bit
\* tells whether x mod 2^n reaches 2^(n-1).
C14_RoundTrip ==
    /\ pc = "decoded" => check = expr.value % Pow2(Len(val0))
    /\ pc \in {"encoded", "decoded"} =>
          /\ Len(val) = Len(val0)
          /\ \A i \in DOMAIN val : val[i] \in {0, 1}
          /\ val[1] = expr.value % 2
          /\ val[Len(val)] = 1 <=> expr.value % Pow2(Len(val)) >= Pow2(Len(val) - 1)

\* 6 written on 2 bits is 0, 1 (least significant first) and reads back 2
C14_Witness ==
    /\ pc = "decoded"
    /\ expr.value = 6
    /\ val = <<0, 1>>
    /\ check = 2

(***************************************************************************)
(* Properties of parser.py (SpecParse)                                     *)
(***************************************************************************)
\* the right-hand side is built from constants only
ConstantRhs == \A i \in 2..Len(val0) : val0[i].type \in {"int", "float"}

\* C15: a definition whose right-hand side is a direct identifier or a
\* constant, constant expressions included, is rejected with a parsing
\* error and no RegisterExpressionDefinition is produced for it.
C15_ConstantRejected ==
    (/\ pc \in {"rejected", "parsed"}
     /\ ConstantRhs \/ (val0[1] = "" /\ val0[2].type = "Identifier"))
    => (err = "ParsingError" /\ regdefseq = <<>>)

\* C16: every Power the parser produces has an exponent >= 0, and `^`
\* with a negative constant exponent or a non-constant exponent is
\* rejected with a parsing error.
C16_PowerExponent ==
    /\ (pc \in {"expression", "parsed"} /\ expr.type = "Power")
          => expr.exponent >= 0
    /\ (/\ pc # "parse" /\ Len(val0) = 3 /\ val0[1] = "^"
        /\ (val0[3].type = "int" => val0[3].value < 0))
          => err = "ParsingError"

(***************************************************************************)
(* Properties of FullCode.check_definition_errors (SpecCheck): the amplify *)
(* target                                                                  *)
(***************************************************************************)
\* the terminator names a register that no definition defines
TargetUndefined ==
    terminator.target \notin {regdefseq[i].name : i \in DOMAIN regdefseq}

\* C17: when the amplify terminator names a target that no definition
\* defines (and the definitions themselves are free of errors), the check
\* raises a SynthError for the target, which carries the line of the
\* amplify terminator.
C17_TargetLine ==
    (/\ pc = "checked" /\ TargetUndefined
     /\ NoError \in regdefseq_loop(regdefseq, 1, <<>>))
    => (/\ check.kind = "SynthError"
        /\ check.description = "target not defined"
        /\ check.name = terminator.target
        /\ check.line = terminator.line)

(***************************************************************************)
(* Properties of the synthesis of one definition (Spec): the order of the  *)
(* reverse pass                                                            *)
(***************************************************************************)
\* the registers named by the log's records of one kind, in order
RECURSIVE Recorded(_, _)
Recorded(kind, i) ==
    IF i > Len(log) THEN <<>>
    ELSE (IF log[i][1] = kind THEN <<log[i][2]>> ELSE <<>>) \o Recorded(kind, i + 1)

\* C18 (mirror ordering): the reverse pass releases the result registers
\* in the reverse of the order in which the build pass allocated them.
C18_Mirror ==
    (pc = "reversed" /\ err = "")
    => Recorded("release_result_qubits", 1)
          = Reversed(Recorded("alloc_result_qubits", 1))

\* the position in the log of the last record of a kind, 0 if there is none
StepAt(kind) ==
    LET at == {i \in DOMAIN log : log[i][1] = kind}
    IN IF at = {} THEN 0 ELSE CHOOSE i \in at : \A j \in at : j <= i

\* the definition's reverse pass ran to its end and recorded its steps
ReversePassDone ==
    /\ pc = "reversed" /\ err = ""
    /\ StepAt("subtract") > 0 /\ StepAt("reverse") > 0

\* the expression holds a result register of its own
OwnResult ==
    needs_result_allocation(expr).err = "" /\ needs_result_allocation(expr).v

\* C19 as stated: in the reverse pass of a definition the expression's
\* reverse is executed first, `target -= expr.result` after it, and only
\* then are the expression's result qubits released.
C19_ReverseThenSubtract ==
    (pc = "reversed" /\ err = "")
    => (/\ ReversePassDone
        /\ StepAt("reverse") < StepAt("subtract")
        /\ OwnResult
              => StepAt("subtract") < StepAt("release_result_qubits"))

\* C19, amended: in the reverse pass of a definition `target -= expr.result`
\* is executed first, the expression's reverse after it, and only then are
\* the expression's result qubits released.
C19_SubtractThenReverse ==
    (pc = "reversed" /\ err = "")
    => (/\ ReversePassDone
        /\ StepAt("subtract") < StepAt("reverse")
        /\ OwnResult
              => StepAt("reverse") < StepAt("release_result_qubits"))

\* a reverse pass that released the registers of two operands and of the
\* expression itself
C19_Witness ==
    /\ ReversePassDone
    /\ OwnResult
    /\ Len(Recorded("release_result_qubits", 1)) = 3
    /\ StepAt("subtract") < StepAt("reverse")
    /\ StepAt("reverse") < StepAt("release_result_qubits")

(***************************************************************************)
(* Properties of pre_build (SpecPreBuild)                                  *)
(***************************************************************************)
\* the normalised fields of a node
Normalised(n) ==
    [f \in DOMAIN n \cap {"const_factor", "const_term", "filtered_operands",
                          "filtered_exponents", "filtered_signals", "mode", "aux"}
       |-> n[f]]

\* the normalised fields of the nodes of the expression
NormalisedFields == {<<n.type, Normalised(n)>> : n \in Nodes(expr)}

\* the ancillas handed out and not handed back
Held == Ancillas \ {pool[i] : i \in DOMAIN pool}

\* C20: pre_build is idempotent: a second call leaves the normalised
\* fields of every node and the set of ancillas held as they were after
\* the first call.
C20_Idempotent ==
    [][pc = "pre_built"
          => (NormalisedFields' = NormalisedFields /\ Held' = Held)]_vars

\* the expressions in the operand fields that build visits
BuildOperands(n) ==
    CASE n.type = "Not" -> {n.operand}
      [] n.type \in {"And", "Or"} -> {n.operands[i] : i \in DOMAIN n.operands}
      [] n.type = "Power" -> {n.base_expr}
      [] n.type \in {"Product", "Summation"} ->
            {n.operands[n.filtered_operands[j]] : j \in DOMAIN n.filtered_operands}
      [] n.type \in RelationalTypes -> {x \in {n.left, n.right} : IsExpression(x)}
      [] OTHER -> {}

\* C21 (Parentheses bypass): after pre_build no operand field that build
\* visits, nor the expression of the definition, holds a Parentheses node.
C21_NoParentheses ==
    (pc = "pre_built" /\ err = "")
    => /\ expr.type # "Parentheses"
       /\ \A n \in Nodes(expr) : \A x \in BuildOperands(n) : x.type # "Parentheses"

\* what is left of an operand when its Parentheses and Power layers are peeled
RECURSIVE Innermost(_)
Innermost(x) ==
    IF x.type = "Parentheses" THEN Innermost(x.inner_expr)
    ELSE IF x.type = "Power" THEN Innermost(x.base_expr)
    ELSE x

\* the product of the exponents of the Power layers of an operand
RECURSIVE ExponentProduct(_)
ExponentProduct(x) ==
    IF x.type = "Parentheses" THEN ExponentProduct(x.inner_expr)
    ELSE IF x.type = "Power" THEN x.exponent * ExponentProduct(x.base_expr)
    ELSE 1

\* the positions of the operands that are expressions
ExpressionOperands(n) == {i \in DOMAIN n.operands : IsExpression(n.operands[i])}

\* C22 (Product-Power fusion): pre_build of a Product, whose operands name
\* defined registers only, completes with, for each non-integer operand,
\* the innermost non-Power, non-Parentheses expression as filtered operand
\* and the product of the exponents of the peeled Power layers as filtered
\* exponent.
C22_PowerFusion ==
    [][(/\ pc = "parsed" /\ expr.type = "Product"
        /\ get_leafs(expr) \subseteq {"a", "b"})
       => /\ err' = ""
          /\ {expr'.filtered_operands[j] : j \in DOMAIN expr'.filtered_operands}
                = ExpressionOperands(expr)
          /\ \A j \in DOMAIN expr'.filtered_operands :
                LET i == expr'.filtered_operands[j]
                IN /\ expr'.operands[i].type = Innermost(expr.operands[i]).type
                   /\ get_leafs(expr'.operands[i]) = get_leafs(expr.operands[i])
                   /\ expr'.filtered_exponents[j] = ExponentProduct(expr.operands[i])]_vars

\* the number of UnaryMinus layers of an operand
RECURSIVE MinusLayers(_)
MinusLayers(x) ==
    IF x.type = "Parentheses" THEN MinusLayers(x.inner_expr)
    ELSE IF x.type = "UnaryMinus" THEN 1 + MinusLayers(x.inner_expr)
    ELSE 0

\* the signed sum of the integer operands of a Summation
RECURSIVE SignedConstants(_, _)
SignedConstants(n, i) ==
    IF i > Len(n.operands) THEN 0
    ELSE (IF IsInt(n.operands[i])
          THEN (IF n.signals[i] THEN n.operands[i].value ELSE -n.operands[i].value)
          ELSE 0) + SignedConstants(n, i + 1)

\* C23 (sign push-down): after a Summation's pre_build has completed, its
\* filtered operands are the non-integer operands, in order, none of them a
\* Parentheses or UnaryMinus node; each filtered sign is the original sign
\* inverted once per UnaryMinus layer peeled; const_term is the signed sum
\* of the integer operands.  check is the Summation as parsed.
C23_SignPushDown ==
    (pc = "pre_built" /\ err = "" /\ check.type = "Summation")
    => /\ expr.type = "Summation"
       /\ {expr.filtered_operands[j] : j \in DOMAIN expr.filtered_operands}
             = ExpressionOperands(check)
       /\ \A j, k \in DOMAIN expr.filtered_operands :
             j < k => expr.filtered_operands[j] < expr.filtered_operands[k]
       /\ Len(expr.filtered_signals) = Len(expr.filtered_operands)
       /\ \A j \in DOMAIN expr.filtered_operands :
             LET i == expr.filtered_operands[j]
             IN /\ expr.operands[i].type \notin {"Parentheses", "UnaryMinus"}
                /\ expr.filtered_signals[j]
                      = (check.signals[i] = (MinusLayers(check.operands[i]) % 2 = 0))
       /\ expr.const_term = SignedConstants(check, 1)

\* `b - -a` pre-built: the sign of the second operand was inverted
C23_Witness ==
    /\ pc = "pre_built" /\ err = ""
    /\ check.type = "Summation"
    /\ check.signals = <<TRUE, FALSE>>
    /\ MinusLayers(check.operands[2]) = 1
    /\ expr.filtered_signals = <<TRUE, TRUE>>
    /\ expr.operands[2].type = "Identifier"

(***************************************************************************)
(* Properties of the synthesis of one definition (Spec): ownership of      *)
(* qubits                                                                  *)
(***************************************************************************)
\* C24 (borrowed results): throughout build and reverse the result of an
\* Identifier is its named register, no qubit of a named register is
\* obtained from alloc_ancilla or passed to free_ancilla, and no Identifier
\* is built or reversed: Expression.build / Expression.reverse, which an
\* Identifier inherits and which raise NotImplementedError, are reached
\* only in programs with a Parentheses or UnaryMinus node.
C24_Borrowed ==
    /\ \A n \in Nodes(expr) :
          n.type = "Identifier"
          => (is_none(n.result) \/ n.result = get_qiskit_register(n.label))
    /\ \A i \in DOMAIN log :
          log[i][1] \in {"alloc", "free"} => log[i][2] > NamedQubits
    /\ err = "NotImplementedError"
          => \E n \in Nodes(check) : n.type \in {"Parentheses", "UnaryMinus"}

\* `not a and not b` built and reversed: a and b hold their registers, and
\* only ancillas were obtained and freed
C24_Witness ==
    /\ pc = "reversed" /\ err = ""
    /\ expr.type = "And"
    /\ \A i \in DOMAIN expr.operands :
          /\ expr.operands[i].type = "Not"
          /\ expr.operands[i].operand.type = "Identifier"
          /\ expr.operands[i].operand.result
                = get_qiskit_register(expr.operands[i].operand.label)
    /\ Cardinality({i \in DOMAIN log : log[i][1] = "free"}) = 3

\* the ancillas a node refers to: its own result register and its aux
Refs(n) ==
    (IF n.type \notin {"Identifier", "Parentheses", "UnaryMinus"} /\ ~is_none(n.result)
     THEN Range(n.result) ELSE {})
    \cup (IF n.type \in RelationalTypes /\ ~is_none(n.aux) THEN Range(n.aux) ELSE {})

\* C25 (exclusive ownership): whenever an expression has been built, for
\* the first time or again after a reverse, every ancilla that a node's
\* result or aux refers to is held by that node alone: it is not in the
\* free pool and no other node refers to it.
C25_Exclusive ==
    (pc \in {"built", "rebuilt", "recomputed"} /\ err = "")
    => \A n \in Nodes(expr) : \A q \in Refs(n) :
          /\ q \notin Range(pool)
          /\ \A m \in Nodes(expr) : m # n => q \notin Refs(m)

(***************************************************************************)
(* qunits.py on its own (SpecUnits): one primitive is appended to a        *)
(* circuit on the registers a and b, the register t and an auxiliary       *)
(* register, and then its _dg counterpart with the same arguments.  expr   *)
(* is the call, val the basis state, val0 the basis state before the first *)
(* call.  The result qubit of a relational primitive is the first qubit of *)
(* t.  The auxiliary register has as many qubits as a has more than b,     *)
(* which is what register_equal_register asserts of it.                    *)
(***************************************************************************)
UnitAux == [i \in 1..(WidthA - WidthB) |-> NamedQubits + i]

RegisterUnits == {"register_by_register_addition", "register_by_register_subtraction"}

RelationalRegisterUnits ==
    {"register_less_than_register", "register_greater_than_register",
     "register_equal_register", "register_not_equal_register"}

RelationalConstantUnits ==
    {"register_less_than_constant", "register_greater_than_constant",
     "register_equal_constant", "register_not_equal_constant"}

\* the constant factors of multiproduct: that of a subtracted product, of a
\* product without a constant, and the largest constant
UnitFactors == {-1, 0, 1, MaxConst}

\* the calls: the primitive and its arguments that are not qubits
UnitCalls ==
    {[type |-> u, src |-> r] : u \in RegisterUnits, r \in {"a", "b"}}
    \cup {[type |-> "multiproduct", bases |-> <<"a">>, exponents |-> <<e>>,
           constant |-> c] : e \in 1..MaxExp, c \in UnitFactors}
    \cup {[type |-> "multiproduct", bases |-> <<"a", "b">>, exponents |-> ee,
           constant |-> c] :
              ee \in {x \in (1..MaxExp) \X (1..MaxExp) : x[1] + x[2] <= MaxExp + 1},
              c \in UnitFactors}
    \cup {[type |-> u] : u \in RelationalRegisterUnits}
    \cup {[type |-> u, constant |-> c] : u \in RelationalConstantUnits, c \in 0..MaxConst}

UnitBases(u) == [i \in DOMAIN u.bases |-> get_qiskit_register(u.bases[i])]

\* the primitive of the call u, appended to the circuit
ApplyUnit(u, s) ==
    LET a == get_qiskit_register("a")
        b == get_qiskit_register("b")
        t == get_qiskit_register("t")
    IN CASE u.type = "register_by_register_addition" ->
              register_by_register_addition(s, get_qiskit_register(u.src), t)
         [] u.type = "register_by_register_subtraction" ->
              register_by_register_subtraction(s, get_qiskit_register(u.src), t)
         [] u.type = "multiproduct" ->
              multiproduct(s, UnitBases(u), u.exponents, t, u.constant)
         [] u.type = "register_less_than_register" ->
              register_less_than_register(s, a, b, UnitAux, t[1])
         [] u.type = "register_greater_than_register" ->
              register_greater_than_register(s, a, b, UnitAux, t[1])
         [] u.type = "register_equal_register" ->
              register_equal_register(s, a, b, UnitAux, t[1])
         [] u.type = "register_not_equal_register" ->
              register_not_equal_register(s, a, b, UnitAux, t[1])
         [] u.type = "register_less_than_constant" ->
              register_less_than_constant(s, a, u.constant, UnitAux, t[1])
         [] u.type = "register_greater_than_constant" ->
              register_greater_than_constant(s, a, u.constant, UnitAux, t[1])
         [] u.type = "register_equal_constant" ->
              register_equal_constant(s, a, u.constant, UnitAux, t[1])
         [] u.type = "register_not_equal_constant" ->
              register_not_equal_constant(s, a, u.constant, UnitAux, t[1])

\* the _dg counterpart of the primitive of the call u
ApplyUnitDg(u, s) ==
    LET a == get_qiskit_register("a")
        b == get_qiskit_register("b")
        t == get_qiskit_register("t")
    IN CASE u.type = "register_by_register_addition" ->
              register_by_register_addition_dg(s, get_qiskit_register(u.src), t)
         [] u.type = "register_by_register_subtraction" ->
              register_by_register_subtraction_dg(s, get_qiskit_register(u.src), t)
         [] u.type = "multiproduct" ->
              multiproduct_dg(s, UnitBases(u), u.exponents, t, u.constant)
         [] u.type = "register_less_than_register" ->
              register_less_than_register_dg(s, a, b, UnitAux, t[1])
         [] u.type = "register_greater_than_register" ->
              register_greater_than_register_dg(s, a, b, UnitAux, t[1])
         [] u.type = "register_equal_register" ->
              register_equal_register_dg(s, a, b, UnitAux, t[1])
         [] u.type = "register_not_equal_register" ->
              register_not_equal_register_dg(s, a, b, UnitAux, t[1])
         [] u.type = "register_less_than_constant" ->
              register_less_than_constant_dg(s, a, u.constant, UnitAux, t[1])
         [] u.type = "register_greater_than_constant" ->
              register_greater_than_constant_dg(s, a, u.constant, UnitAux, t[1])
         [] u.type = "register_equal_constant" ->
              register_equal_constant_dg(s, a, u.constant, UnitAux, t[1])
         [] u.type = "register_not_equal_constant" ->
              register_not_equal_constant_dg(s, a, u.constant, UnitAux, t[1])

InitUnits ==
    /\ pc = "unit"
    /\ expr \in UnitCalls
    /\ \E va \in 0..(Pow2(WidthA) - 1), vb \in 0..(Pow2(WidthB) - 1),
          vt \in 0..(Pow2(WidthT) - 1), x \in {0, 1} :
          \* the qubits that are no argument of the call are at 0
          /\ expr.type \in RelationalRegisterUnits \cup RelationalConstantUnits
                 => vt \in {0, 1}
          /\ expr.type \in RegisterUnits \cup {"multiproduct"} => x = 0
          /\ val = natural_to_binary(va, WidthA) \o natural_to_binary(vb, WidthB)
                       \o natural_to_binary(vt, WidthT) \o [i \in 1..Len(UnitAux) |-> x]
    /\ val0 = val
    /\ pool = <<>>
    /\ n_ancillas = Len(UnitAux)
    /\ log = <<>>
    /\ err = ""
    /\ regdefseq = <<>>
    /\ terminator = ""
    /\ check = ""

\* op(circ, ...)
UnitApply ==
    /\ pc = "unit"
    /\ LET Applied(s) == val' = s.val /\ err' = s.err
       IN Applied(ApplyUnit(expr, Walk))
    /\ pc' = "applied"
    /\ UNCHANGED <<expr, val0, pool, n_ancillas, log, regdefseq, terminator, check>>

\* op_dg(circ, ...) with the arguments of op
UnitApplyDg ==
    /\ pc = "applied"
    /\ err = ""
    /\ LET Applied(s) == val' = s.val /\ err' = s.err
       IN Applied(ApplyUnitDg(expr, Walk))
    /\ pc' = "undone"
    /\ UNCHANGED <<expr, val0, pool, n_ancillas, log, regdefseq, terminator, check>>

NextUnits == UnitApply \/ UnitApplyDg

SpecUnits == InitUnits /\ [][NextUnits]_vars

(***************************************************************************)
(* Properties of qunits.py (SpecUnits)                                     *)
(***************************************************************************)
\* C26 (op and op_dg): for every primitive of qunits.py, op followed by
\* op_dg with the same arguments leaves every qubit of every basis state as
\* it was, and neither call raises.
C26_DgInverts ==
    /\ err = ""
    /\ pc = "undone" => val = val0

\* the product of base_i ^ e_i over the bases of a multiproduct call, in the
\* basis state v
RECURSIVE BasesProduct(_, _, _)
BasesProduct(u, v, i) ==
    IF i > Len(u.bases) THEN 1
    ELSE (RegVal(v, get_qiskit_register(u.bases[i])) ^ u.exponents[i])
             * BasesProduct(u, v, i + 1)

RECURSIVE BuildVisits(_)
BuildVisits(n) == {n} \cup UNION {BuildVisits(x) : x \in BuildOperands(n)}

\* what pre_build leaves on a node: the register of an Identifier that names
\* a defined register, the mode and the aux list of a relational node
Populated(n) ==
    /\ (n.type = "Identifier" /\ n.label \in DOMAIN RegSize) => n.result # None
    /\ n.type \in RelationalTypes => (n.mode # "" /\ n.aux # None)

\* C28 (pre_build before build): after pre_build of the expression of a
\* definition has completed, every node that build visits has been
\* pre-built: Identifier results, modes and aux lists are populated.
C28_PreBuilt ==
    (pc = "pre_built" /\ err = "") => \A n \in BuildVisits(expr) : Populated(n)

(***************************************************************************)
(* Properties of the synthesis of one definition (Spec): widths of the     *)
(* arithmetic results                                                      *)
(***************************************************************************)
ArithmeticTypes == {"Power", "Product", "Summation"}

\* the arithmetic nodes whose result register has been allocated
AllocatedArithmetic ==
    {n \in Nodes(expr) : n.type \in ArithmeticTypes /\ n.result # None}

\* C29 (positive width): the result register of every arithmetic node that
\* has been built has at least one qubit, and neither build nor reverse
\* fails the assertion `n > 0` of register_by_constant_addition.
C29_PositiveWidth ==
    pc \in {"built", "reversed"} =>
        /\ \A n \in AllocatedArithmetic : Len(n.result) >= 1
        /\ ~(err = "AssertionError" /\ \E n \in AllocatedArithmetic : n.result = <<>>)

\* the Summation nodes that have been built, whose operands are all
\* registers added with a positive sign
PositiveSums ==
    {n \in Nodes(expr) :
        /\ n.type = "Summation"
        /\ n.result # None
        /\ n.const_term = 0
        /\ Len(n.filtered_operands) = Len(n.operands)
        /\ \A j \in DOMAIN n.filtered_signals : n.filtered_signals[j]}

\* the sum of the values of the operands of a Summation
OperandSum(n) ==
    SeqSum([j \in DOMAIN n.filtered_operands |->
               RegVal(val, n.operands[n.filtered_operands[j]].result)])

\* C30 (no wraparound): once a definition is built, the result register of
\* a Summation of positive register operands without a constant term holds
\* the exact sum of the values of its operands.
C30_ExactSum ==
    (pc = "built" /\ err = "") =>
        \A n \in PositiveSums : RegVal(val, n.result) = OperandSum(n)

====
